---- MODULE Spec2Model ----
(***************************************************************************)
(* Hybrid retrieval and reranking engine of the PakLaw chatbot             *)
(* (src/ChatBot/retriever.py): query expansion, BM25 keyword search, dense *)
(* search through the vector store, reciprocal rank fusion, reranking and  *)
(* the search entry points of HybridRetriever.                             *)
(*                                                                         *)
(* Python strings are sequences of one-character strings, a Document is a  *)
(* record [page_content, metadata], metadata and filters are records whose *)
(* domain is the set of keys present.  Floating-point scores are exact     *)
(* rationals [n, d].                                                       *)
(***************************************************************************)
EXTENDS Integers, Sequences, FiniteSets, TLC

(***************************************************************************)
(* Strings                                                                 *)
(***************************************************************************)
UpperChars ==
  <<"A","B","C","D","E","F","G","H","I","J","K","L","M",
    "N","O","P","Q","R","S","T","U","V","W","X","Y","Z">>

LowerChars ==
  <<"a","b","c","d","e","f","g","h","i","j","k","l","m",
    "n","o","p","q","r","s","t","u","v","w","x","y","z">>

DigitChars == <<"0","1","2","3","4","5","6","7","8","9">>

Range(s) == {s[i] : i \in DOMAIN s}

LowerOf ==
  [c \in Range(UpperChars) |-> LowerChars[CHOOSE i \in DOMAIN UpperChars : UpperChars[i] = c]]

\* str.lower() on one character
LowerChar(c) == IF c \in DOMAIN LowerOf THEN LowerOf[c] ELSE c

\* str.lower()
Lower(s) == [i \in 1..Len(s) |-> LowerChar(s[i])]

\* Python's `needle in hay` on strings
Contains(hay, needle) ==
  \E i \in 0..(Len(hay) - Len(needle)) :
    \A j \in 1..Len(needle) : hay[i + j] = needle[j]

\* s[:n]
Prefix(s, n) == SubSeq(s, 1, IF Len(s) < n THEN Len(s) ELSE n)

\* " ".join(parts)
RECURSIVE JoinSpace(_)
JoinSpace(parts) ==
  IF parts = << >> THEN << >>
  ELSE IF Len(parts) = 1 THEN parts[1]
  ELSE parts[1] \o <<" ">> \o JoinSpace(Tail(parts))

\* [x for x in s if P(x)]
RECURSIVE SelectNotIn(_, _)
SelectNotIn(syns, query_lower) ==
  IF syns = << >> THEN << >>
  ELSE (IF Contains(query_lower, Lower(Head(syns))) THEN << >> ELSE <<Head(syns)>>)
         \o SelectNotIn(Tail(syns), query_lower)

(***************************************************************************)
(* Query expansion                                                         *)
(***************************************************************************)
LEGAL_SYNONYMS ==
  <<
    [term |-> <<"t","h","e","f","t">>,
     synonyms |-> <<
       <<"s","t","e","a","l","i","n","g">>,
       <<"r","o","b","b","e","r","y">>,
       <<"l","a","r","c","e","n","y">>,
       <<"P","P","C"," ","S","e","c","t","i","o","n"," ","3","7","9">>,
       <<"d","i","s","h","o","n","e","s","t"," ","m","i","s","a","p","p","r","o","p","r","i","a","t","i","o","n">>
     >>],
    [term |-> <<"m","u","r","d","e","r">>,
     synonyms |-> <<
       <<"h","o","m","i","c","i","d","e">>,
       <<"k","i","l","l","i","n","g">>,
       <<"q","a","t","l">>,
       <<"P","P","C"," ","S","e","c","t","i","o","n"," ","3","0","2">>,
       <<"c","u","l","p","a","b","l","e"," ","h","o","m","i","c","i","d","e">>
     >>],
    [term |-> <<"r","o","b","b","e","r","y">>,
     synonyms |-> <<
       <<"t","h","e","f","t">>,
       <<"d","a","c","o","i","t","y">>,
       <<"e","x","t","o","r","t","i","o","n">>,
       <<"P","P","C"," ","S","e","c","t","i","o","n"," ","3","9","2">>
     >>],
    [term |-> <<"k","i","d","n","a","p","p","i","n","g">>,
     synonyms |-> <<
       <<"a","b","d","u","c","t","i","o","n">>,
       <<"P","P","C"," ","S","e","c","t","i","o","n"," ","3","5","9">>,
       <<"w","r","o","n","g","f","u","l"," ","c","o","n","f","i","n","e","m","e","n","t">>
     >>],
    [term |-> <<"f","r","a","u","d">>,
     synonyms |-> <<
       <<"c","h","e","a","t","i","n","g">>,
       <<"f","o","r","g","e","r","y">>,
       <<"d","i","s","h","o","n","e","s","t","y">>,
       <<"P","P","C"," ","S","e","c","t","i","o","n"," ","4","2","0">>,
       <<"m","i","s","r","e","p","r","e","s","e","n","t","a","t","i","o","n">>
     >>],
    [term |-> <<"b","r","i","b","e","r","y">>,
     synonyms |-> <<
       <<"c","o","r","r","u","p","t","i","o","n">>,
       <<"g","r","a","t","i","f","i","c","a","t","i","o","n">>,
       <<"N","A","B">>,
       <<"a","n","t","i"," ","c","o","r","r","u","p","t","i","o","n">>
     >>],
    [term |-> <<"a","s","s","a","u","l","t">>,
     synonyms |-> <<
       <<"h","u","r","t">>,
       <<"g","r","i","e","v","o","u","s"," ","h","u","r","t">>,
       <<"b","a","t","t","e","r","y">>,
       <<"P","P","C"," ","S","e","c","t","i","o","n"," ","3","3","2">>
     >>],
    [term |-> <<"b","a","i","l">>,
     synonyms |-> <<
       <<"s","u","r","e","t","y">>,
       <<"b","o","n","d">>,
       <<"C","r","P","C"," ","S","e","c","t","i","o","n"," ","4","9","7">>,
       <<"p","r","e","-","a","r","r","e","s","t"," ","b","a","i","l">>,
       <<"p","o","s","t","-","a","r","r","e","s","t"," ","b","a","i","l">>
     >>],
    [term |-> <<"d","i","v","o","r","c","e">>,
     synonyms |-> <<
       <<"t","a","l","a","q">>,
       <<"k","h","u","l","a">>,
       <<"d","i","s","s","o","l","u","t","i","o","n"," ","o","f"," ","m","a","r","r","i","a","g","e">>,
       <<"f","a","m","i","l","y"," ","c","o","u","r","t","s"," ","a","c","t">>
     >>],
    [term |-> <<"m","a","r","r","i","a","g","e">>,
     synonyms |-> <<
       <<"n","i","k","a","h">>,
       <<"M","u","s","l","i","m"," ","F","a","m","i","l","y"," ","L","a","w","s"," ","O","r","d","i","n","a","n","c","e">>,
       <<"m","a","r","r","i","a","g","e"," ","r","e","g","i","s","t","r","a","t","i","o","n">>
     >>],
    [term |-> <<"c","u","s","t","o","d","y">>,
     synonyms |-> <<
       <<"g","u","a","r","d","i","a","n","s","h","i","p">>,
       <<"h","i","z","a","n","a","t">>,
       <<"m","i","n","o","r">>,
       <<"g","u","a","r","d","i","a","n"," ","a","n","d"," ","w","a","r","d","s"," ","a","c","t">>
     >>],
    [term |-> <<"m","a","i","n","t","e","n","a","n","c","e">>,
     synonyms |-> <<
       <<"n","a","f","a","q","a">>,
       <<"a","l","i","m","o","n","y">>,
       <<"f","i","n","a","n","c","i","a","l"," ","s","u","p","p","o","r","t">>,
       <<"w","i","f","e"," ","m","a","i","n","t","e","n","a","n","c","e">>
     >>],
    [term |-> <<"i","n","h","e","r","i","t","a","n","c","e">>,
     synonyms |-> <<
       <<"s","u","c","c","e","s","s","i","o","n">>,
       <<"w","i","r","a","s","a","t">>,
       <<"I","s","l","a","m","i","c"," ","i","n","h","e","r","i","t","a","n","c","e">>,
       <<"s","u","c","c","e","s","s","i","o","n"," ","a","c","t">>
     >>],
    [term |-> <<"d","o","w","e","r">>,
     synonyms |-> <<
       <<"h","a","q"," ","m","e","h","r">>,
       <<"m","a","h","r">>,
       <<"m","e","h","r">>,
       <<"d","o","w","r","y">>
     >>],
    [term |-> <<"p","r","o","p","e","r","t","y">>,
     synonyms |-> <<
       <<"l","a","n","d">>,
       <<"r","e","a","l"," ","e","s","t","a","t","e">>,
       <<"i","m","m","o","v","a","b","l","e"," ","p","r","o","p","e","r","t","y">>,
       <<"t","r","a","n","s","f","e","r"," ","o","f"," ","p","r","o","p","e","r","t","y"," ","a","c","t">>
     >>],
    [term |-> <<"r","e","n","t">>,
     synonyms |-> <<
       <<"t","e","n","a","n","c","y">>,
       <<"l","e","a","s","e">>,
       <<"l","a","n","d","l","o","r","d"," ","t","e","n","a","n","t">>,
       <<"r","e","n","t"," ","r","e","s","t","r","i","c","t","i","o","n">>
     >>],
    [term |-> <<"l","a","n","d">>,
     synonyms |-> <<
       <<"p","r","o","p","e","r","t","y">>,
       <<"a","g","r","i","c","u","l","t","u","r","a","l"," ","l","a","n","d">>,
       <<"r","e","v","e","n","u","e">>,
       <<"l","a","n","d"," ","r","e","v","e","n","u","e"," ","a","c","t">>
     >>],
    [term |-> <<"e","v","i","c","t","i","o","n">>,
     synonyms |-> <<
       <<"e","j","e","c","t","m","e","n","t">>,
       <<"r","e","m","o","v","a","l">>,
       <<"t","e","n","a","n","t"," ","e","v","i","c","t","i","o","n">>
     >>],
    [term |-> <<"w","a","g","e","s">>,
     synonyms |-> <<
       <<"s","a","l","a","r","y">>,
       <<"p","a","y","m","e","n","t"," ","o","f"," ","w","a","g","e","s"," ","a","c","t">>,
       <<"m","i","n","i","m","u","m"," ","w","a","g","e","s">>,
       <<"r","e","m","u","n","e","r","a","t","i","o","n">>
     >>],
    [term |-> <<"t","e","r","m","i","n","a","t","i","o","n">>,
     synonyms |-> <<
       <<"d","i","s","m","i","s","s","a","l">>,
       <<"r","e","m","o","v","a","l"," ","f","r","o","m"," ","s","e","r","v","i","c","e">>,
       <<"w","r","o","n","g","f","u","l"," ","t","e","r","m","i","n","a","t","i","o","n">>
     >>],
    [term |-> <<"p","e","n","s","i","o","n">>,
     synonyms |-> <<
       <<"r","e","t","i","r","e","m","e","n","t"," ","b","e","n","e","f","i","t","s">>,
       <<"g","r","a","t","u","i","t","y">>,
       <<"p","r","o","v","i","d","e","n","t"," ","f","u","n","d">>
     >>],
    [term |-> <<"w","o","r","k","e","r">>,
     synonyms |-> <<
       <<"e","m","p","l","o","y","e","e">>,
       <<"l","a","b","o","u","r","e","r">>,
       <<"w","o","r","k","m","a","n">>,
       <<"i","n","d","u","s","t","r","i","a","l"," ","w","o","r","k","e","r">>
     >>],
    [term |-> <<"f","u","n","d","a","m","e","n","t","a","l"," ","r","i","g","h","t","s">>,
     synonyms |-> <<
       <<"b","a","s","i","c"," ","r","i","g","h","t","s">>,
       <<"c","o","n","s","t","i","t","u","t","i","o","n","a","l"," ","r","i","g","h","t","s">>,
       <<"P","a","r","t"," ","I","I">>,
       <<"A","r","t","i","c","l","e"," ","8"," ","t","o"," ","2","8">>
     >>],
    [term |-> <<"f","r","e","e","d","o","m"," ","o","f"," ","s","p","e","e","c","h">>,
     synonyms |-> <<
       <<"A","r","t","i","c","l","e"," ","1","9">>,
       <<"e","x","p","r","e","s","s","i","o","n">>,
       <<"f","r","e","e"," ","s","p","e","e","c","h">>,
       <<"p","r","e","s","s"," ","f","r","e","e","d","o","m">>
     >>],
    [term |-> <<"r","i","g","h","t"," ","t","o"," ","e","d","u","c","a","t","i","o","n">>,
     synonyms |-> <<
       <<"A","r","t","i","c","l","e"," ","2","5","A">>,
       <<"f","r","e","e"," ","e","d","u","c","a","t","i","o","n">>,
       <<"c","o","m","p","u","l","s","o","r","y"," ","e","d","u","c","a","t","i","o","n">>
     >>],
    [term |-> <<"e","q","u","a","l","i","t","y">>,
     synonyms |-> <<
       <<"A","r","t","i","c","l","e"," ","2","5">>,
       <<"e","q","u","a","l"," ","p","r","o","t","e","c","t","i","o","n">>,
       <<"n","o","n","-","d","i","s","c","r","i","m","i","n","a","t","i","o","n">>
     >>],
    [term |-> <<"c","y","b","e","r","c","r","i","m","e">>,
     synonyms |-> <<
       <<"e","l","e","c","t","r","o","n","i","c"," ","c","r","i","m","e">>,
       <<"P","E","C","A">>,
       <<"o","n","l","i","n","e"," ","c","r","i","m","e">>,
       <<"c","y","b","e","r"," ","o","f","f","e","n","c","e">>
     >>],
    [term |-> <<"d","a","t","a"," ","p","r","o","t","e","c","t","i","o","n">>,
     synonyms |-> <<
       <<"p","r","i","v","a","c","y">>,
       <<"p","e","r","s","o","n","a","l"," ","d","a","t","a">>,
       <<"i","n","f","o","r","m","a","t","i","o","n"," ","s","e","c","u","r","i","t","y">>
     >>],
    [term |-> <<"d","e","f","a","m","a","t","i","o","n">>,
     synonyms |-> <<
       <<"l","i","b","e","l">>,
       <<"s","l","a","n","d","e","r">>,
       <<"o","n","l","i","n","e"," ","d","e","f","a","m","a","t","i","o","n">>,
       <<"P","P","C"," ","S","e","c","t","i","o","n"," ","4","9","9">>
     >>],
    [term |-> <<"F","I","R">>,
     synonyms |-> <<
       <<"f","i","r","s","t"," ","i","n","f","o","r","m","a","t","i","o","n"," ","r","e","p","o","r","t">>,
       <<"p","o","l","i","c","e"," ","r","e","p","o","r","t">>,
       <<"c","o","m","p","l","a","i","n","t">>,
       <<"C","r","P","C"," ","S","e","c","t","i","o","n"," ","1","5","4">>
     >>],
    [term |-> <<"a","p","p","e","a","l">>,
     synonyms |-> <<
       <<"r","e","v","i","s","i","o","n">>,
       <<"r","e","v","i","e","w">>,
       <<"a","p","p","e","l","l","a","t","e">>,
       <<"h","i","g","h"," ","c","o","u","r","t"," ","a","p","p","e","a","l">>
     >>],
    [term |-> <<"w","r","i","t">>,
     synonyms |-> <<
       <<"A","r","t","i","c","l","e"," ","1","9","9">>,
       <<"c","o","n","s","t","i","t","u","t","i","o","n","a","l"," ","p","e","t","i","t","i","o","n">>,
       <<"m","a","n","d","a","m","u","s">>,
       <<"h","a","b","e","a","s"," ","c","o","r","p","u","s">>
     >>],
    [term |-> <<"i","n","j","u","n","c","t","i","o","n">>,
     synonyms |-> <<
       <<"s","t","a","y"," ","o","r","d","e","r">>,
       <<"r","e","s","t","r","a","i","n","i","n","g"," ","o","r","d","e","r">>,
       <<"t","e","m","p","o","r","a","r","y"," ","i","n","j","u","n","c","t","i","o","n">>
     >>],
    [term |-> <<"e","v","i","d","e","n","c","e">>,
     synonyms |-> <<
       <<"p","r","o","o","f">>,
       <<"w","i","t","n","e","s","s">>,
       <<"Q","a","n","u","n","-","e","-","S","h","a","h","a","d","a","t">>,
       <<"t","e","s","t","i","m","o","n","y">>
     >>],
    [term |-> <<"c","o","n","t","r","a","c","t">>,
     synonyms |-> <<
       <<"a","g","r","e","e","m","e","n","t">>,
       <<"c","o","n","t","r","a","c","t"," ","a","c","t"," ","1","8","7","2">>,
       <<"b","r","e","a","c","h"," ","o","f"," ","c","o","n","t","r","a","c","t">>
     >>],
    [term |-> <<"t","a","x">>,
     synonyms |-> <<
       <<"t","a","x","a","t","i","o","n">>,
       <<"i","n","c","o","m","e"," ","t","a","x">>,
       <<"s","a","l","e","s"," ","t","a","x">>,
       <<"F","B","R">>,
       <<"r","e","v","e","n","u","e">>
     >>],
    [term |-> <<"c","o","m","p","a","n","y">>,
     synonyms |-> <<
       <<"c","o","r","p","o","r","a","t","i","o","n">>,
       <<"c","o","m","p","a","n","i","e","s"," ","a","c","t">>,
       <<"S","E","C","P">>,
       <<"c","o","r","p","o","r","a","t","e">>
     >>]
  >>

\* `expansions[:5]`
MaxExpansions == 5

\* The loop of expand_query over LEGAL_SYNONYMS.items(), in dict order.
RECURSIVE Expansions(_, _)
Expansions(table, query_lower) ==
  IF table = << >> THEN << >>
  ELSE (IF Contains(query_lower, Head(table).term)
          THEN SelectNotIn(Head(table).synonyms, query_lower)
          ELSE << >>)
         \o Expansions(Tail(table), query_lower)

\* expanded without the cut to five
expanded_uncut(query, expansions) ==
  IF expansions # << >> THEN query \o <<" ">> \o JoinSpace(expansions) ELSE query

\* `if expansions:` append the first five, else the query as it is
expanded(query, expansions) ==
  IF expansions # << >>
    THEN query \o <<" ">> \o JoinSpace(Prefix(expansions, MaxExpansions))
    ELSE query

expand_query(query) == expanded(query, Expansions(LEGAL_SYNONYMS, Lower(query)))

(***************************************************************************)
(* Tokenizer: text.lower(), then re.findall(r'\b\w+\b', text)              *)
(***************************************************************************)
WordChars == Range(UpperChars) \cup Range(LowerChars) \cup Range(DigitChars) \cup {"_"}

TokenStarts(s) ==
  {i \in 1..Len(s) : s[i] \in WordChars /\ (i = 1 \/ s[i - 1] \notin WordChars)}

TokenEnd(s, i) ==
  CHOOSE j \in i..Len(s) :
    /\ \A m \in i..j : s[m] \in WordChars
    /\ (j = Len(s) \/ s[j + 1] \notin WordChars)

\* the n-th smallest element of a set of positions
Nth(starts, n) == CHOOSE i \in starts : Cardinality({j \in starts : j < i}) = n - 1

\* re.findall(r'\b\w+\b', s): the maximal runs of word characters, in order
findall(s, starts) ==
  [n \in 1..Cardinality(starts) |->
     SubSeq(s, Nth(starts, n), TokenEnd(s, Nth(starts, n)))]

tokens(s) == findall(s, TokenStarts(s))

_tokenize(text) == tokens(Lower(text))

(***************************************************************************)
(* Scores.  A Python float is modelled by the exact rational [n, d], d > 0 *)
(***************************************************************************)
RECURSIVE GCD(_, _)
GCD(a, b) == IF b = 0 THEN a ELSE GCD(b, a % b)

Frac(n, d) == LET g == GCD(IF n < 0 THEN -n ELSE n, d) IN [n |-> n \div g, d |-> d \div g]

Zero == Frac(0, 1)

LCM(a, b) == (a \div GCD(a, b)) * b

\* a + b over the common denominator d
FAddOver(a, b, d) == Frac(a.n * (d \div a.d) + b.n * (d \div b.d), d)

FAdd(a, b) == FAddOver(a, b, LCM(a.d, b.d))

\* a < b over the common denominator d
FLessOver(a, b, d) == a.n * (d \div a.d) < b.n * (d \div b.d)

FLess(a, b) == FLessOver(a, b, LCM(a.d, b.d))

RECURSIVE FSum(_)
FSum(fs) == IF fs = << >> THEN Zero ELSE FAdd(Head(fs), FSum(Tail(fs)))

\* [x for x in s if x in keep], on the indices of s
RECURSIVE SelectIdx(_, _, _)
SelectIdx(s, keep, i) ==
  IF i > Len(s) THEN << >>
  ELSE (IF i \in keep THEN <<s[i]>> ELSE << >>) \o SelectIdx(s, keep, i + 1)

\* sorted(items, key=lambda x: x[1], reverse=True): a stable sort, equal scores
\* keep their order in the input.
SortedByScoreDesc(items) ==
  LET before(j, i) == \/ FLess(items[i].score, items[j].score)
                      \/ (items[j].score = items[i].score /\ j < i)
      pos(i) == 1 + Cardinality({j \in DOMAIN items : before(j, i)})
  IN  [p \in DOMAIN items |-> items[CHOOSE i \in DOMAIN items : pos(i) = p]]

(***************************************************************************)
(* Documents                                                               *)
(***************************************************************************)
\* Python's None as a metadata or filter value
None == "<None>"

\* doc.metadata.get(key, default)
MetaGet(metadata, key, default) ==
  IF key \in DOMAIN metadata THEN metadata[key] ELSE default

\* first 200 characters of the content enter the document id
DocIdPrefixLen == 200

\* HybridRetriever._get_doc_id: f"{source}_{page}_{hash(content)}"; the three
\* parts are kept as a tuple and hash() as the hashed text itself
_get_doc_id(doc) ==
  << MetaGet(doc.metadata, "source", ""),
     MetaGet(doc.metadata, "page", ""),
     Prefix(doc.page_content, DocIdPrefixLen) >>

Docs(results) == [i \in DOMAIN results |-> results[i].doc]

(***************************************************************************)
(* The retriever: self.documents, self.tokenized_docs, self.bm25, and the  *)
(* tie order of numpy's argsort in this build.  last and prev record the   *)
(* most recent calls and their outcomes.                                   *)
(***************************************************************************)
VARIABLES documents, tokenized_docs, bm25, argsort_ties, last, prev

\* The module state of chatbotlogic.py: the two import flags, the two cached
\* instances, the directories of the vector stores on disk, the calls started
\* so far, the HybridRetrievers constructed, those handed out to a caller, and
\* the frame of each thread that may be inside a call.
VARIABLES RAG_AVAILABLE, HYBRID_AVAILABLE, _vector_store_manager, _hybrid_retriever,
          disk, started, constructed, handed_out, frames

chatbot == <<RAG_AVAILABLE, HYBRID_AVAILABLE, _vector_store_manager, _hybrid_retriever,
             disk, started, constructed, handed_out, frames>>

index == <<documents, tokenized_docs, bm25>>
vars == <<documents, tokenized_docs, bm25, argsort_ties, last, prev, chatbot>>

\* self.bm25 = None
NoBM25 == [built |-> FALSE, doc_freqs |-> << >>]

\* BM25Okapi(tokenized_docs): the per-document term frequencies
BM25Okapi(corpus) ==
  [built |-> TRUE,
   doc_freqs |-> [i \in DOMAIN corpus |->
                    [t \in Range(corpus[i]) |->
                       Cardinality({n \in DOMAIN corpus[i] : corpus[i][n] = t})]]]

\* HybridRetriever._build_bm25_index
_build_bm25_index(docs) ==
  LET toks == [i \in DOMAIN docs |-> _tokenize(docs[i].page_content)]
  IN  [documents |-> docs, tokenized_docs |-> toks, bm25 |-> BM25Okapi(toks)]

\* HybridRetriever.__init__
HybridRetrieverInit(docs) ==
  IF docs # << >>
    THEN _build_bm25_index(docs)
    ELSE [documents |-> << >>, tokenized_docs |-> << >>, bm25 |-> NoBM25]

\* BM25Okapi.get_scores of rank_bm25: one score per document, a sum over the
\* query's tokens of a term weight times a function of the token's frequency
\* in the document; a document holding none of the query's tokens scores 0.
\* The weight is taken as 1 and the function as the frequency.
RECURSIVE TermScore(_, _, _)
TermScore(freqs, tokenized_query, n) ==
  IF n > Len(tokenized_query) THEN 0
  ELSE (IF tokenized_query[n] \in DOMAIN freqs THEN freqs[tokenized_query[n]] ELSE 0)
         + TermScore(freqs, tokenized_query, n + 1)

get_scores(tokenized_query) ==
  [i \in DOMAIN bm25.doc_freqs |-> TermScore(bm25.doc_freqs[i], tokenized_query, 1)]

\* ArgsortDesc with a tie order that depends on whether a call came before
ArgsortDescByHistory(scores) ==
  LET tie(j, i) == IF last.op = "none" THEN j > i ELSE j < i
      before(j, i) == scores[j] > scores[i] \/ (scores[j] = scores[i] /\ tie(j, i))
      pos(i) == 1 + Cardinality({j \in DOMAIN scores : before(j, i)})
  IN  [p \in DOMAIN scores |-> CHOOSE i \in DOMAIN scores : pos(i) = p]

\* np.argsort(scores)[::-1]: the indices by descending score; the order of
\* equal scores is the build's (argsort's default kind is not stable).
ArgsortDesc(scores) ==
  LET tie(j, i) == IF argsort_ties = "index_desc" THEN j > i ELSE j < i
      before(j, i) == scores[j] > scores[i] \/ (scores[j] = scores[i] /\ tie(j, i))
      pos(i) == 1 + Cardinality({j \in DOMAIN scores : before(j, i)})
  IN  [p \in DOMAIN scores |-> CHOOSE i \in DOMAIN scores : pos(i) = p]

Max(S) == CHOOSE m \in S : \A y \in S : y <= m

\* bm25_search, lines 184-189: the kept scores divided by their maximum
bm25_normalized(scores, kept, max_score) ==
  [p \in DOMAIN kept |->
     [doc |-> documents[kept[p]], score |-> Frac(scores[kept[p]], max_score)]]

\* bm25_search, lines 185-186: max(score for _, score in results)
bm25_max_score(scores, kept) ==
  IF kept = << >> THEN 1 ELSE Max({scores[kept[p]] : p \in DOMAIN kept})

\* bm25_positive keeping the documents that score zero as well
bm25_any_score(scores, top_indices) ==
  SelectIdx(top_indices, {p \in DOMAIN top_indices : scores[top_indices[p]] >= 0}, 1)

\* bm25_search, lines 179-182: of the top indices, those with a positive score
bm25_positive(scores, top_indices) ==
  SelectIdx(top_indices, {p \in DOMAIN top_indices : scores[top_indices[p]] > 0}, 1)

\* bm25_search, lines 177-189, from the scores of the documents
bm25_results_of(scores, kept) == bm25_normalized(scores, kept, bm25_max_score(scores, kept))

bm25_top(scores, k) == bm25_results_of(scores, bm25_positive(scores, Prefix(ArgsortDesc(scores), k)))

\* HybridRetriever.bm25_search
bm25_search(query, k) ==
  IF ~bm25.built \/ documents = << >> THEN << >>
  ELSE bm25_top(get_scores(_tokenize(query)), k)

\* semantic_search without its try/except: the vector store's exception leaves
semantic_search_unguarded(query, k, filter_dict, resp) ==
  IF resp.raises THEN [raised |-> TRUE, results |-> << >>]
  ELSE [raised |-> FALSE,
        results |-> [i \in DOMAIN resp.results |->
                       [doc |-> resp.results[i].doc,
                        score |-> Frac(resp.results[i].distance.d,
                                       resp.results[i].distance.d + resp.results[i].distance.n)]]]

\* HybridRetriever.semantic_search.  resp is the vector store's answer to
\* similarity_search_with_score(query, k=k, filter=filter_dict): it raises, or
\* returns a list of (Document, distance), the distance a rational n/d, and
\* similarity = 1 / (1 + distance).  The except clause turns a raise into an
\* empty list.
semantic_search(query, k, filter_dict, resp) ==
  IF resp.raises THEN [raised |-> FALSE, results |-> << >>]
  ELSE [raised |-> FALSE,
        results |-> [i \in DOMAIN resp.results |->
                       [doc |-> resp.results[i].doc,
                        score |-> Frac(resp.results[i].distance.d,
                                       resp.results[i].distance.d + resp.results[i].distance.n)]]]

(***************************************************************************)
(* Fusion and reranking                                                    *)
(***************************************************************************)
rrf_constant == 60

\* RRF with a contribution that grows with the rank
RRF_growing(weight, rank) == Frac(weight.n * (rank + 1), weight.d * rrf_constant)

\* weight * (1 / (rank + rrf_constant)) for a 0-based rank
RRF(weight, rank) == Frac(weight.n, weight.d * (rank + rrf_constant))

\* The doc_ids of a list in the order of their first occurrence: the key
\* order of a Python dict filled in list order.
RECURSIVE FirstSeen(_, _)
FirstSeen(items, seen) ==
  IF items = << >> THEN << >>
  ELSE LET id == _get_doc_id(Head(items).doc)
       IN  IF id \in seen THEN FirstSeen(Tail(items), seen)
           ELSE <<id>> \o FirstSeen(Tail(items), seen \cup {id})

RECURSIVE RankScores(_, _, _, _)
RankScores(items, id, weight, i) ==
  IF i > Len(items) THEN << >>
  ELSE (IF _get_doc_id(items[i].doc) = id THEN <<RRF(weight, i - 1)>> ELSE << >>)
         \o RankScores(items, id, weight, i + 1)

\* The two loops and the sort shared by hybrid_search and _combine_results:
\* the semantic list is processed first (doc_objects[doc_id] = doc on every
\* semantic occurrence), then the BM25 list (doc_objects set only if absent).
FuseIds(semantic_results, bm25_results, semantic_weight, bm25_weight, k, ids) ==
  LET sem_at(id) == {i \in DOMAIN semantic_results : _get_doc_id(semantic_results[i].doc) = id}
      bm_at(id) == {i \in DOMAIN bm25_results : _get_doc_id(bm25_results[i].doc) = id}
      doc_object(id) ==
        IF sem_at(id) # {} THEN semantic_results[Max(sem_at(id))].doc
        ELSE bm25_results[CHOOSE i \in bm_at(id) : \A j \in bm_at(id) : i <= j].doc
      doc_score(id) ==
        FAdd(FSum(RankScores(semantic_results, id, semantic_weight, 1)),
             FSum(RankScores(bm25_results, id, bm25_weight, 1)))
      sorted_docs ==
        SortedByScoreDesc([p \in DOMAIN ids |->
                             [doc |-> doc_object(ids[p]), score |-> doc_score(ids[p])]])
  IN  Prefix(sorted_docs, k)

\* Fuse without the cut to k
Fuse_uncut(semantic_results, bm25_results, semantic_weight, bm25_weight, k) ==
  FuseIds(semantic_results, bm25_results, semantic_weight, bm25_weight,
          Len(semantic_results) + Len(bm25_results),
          FirstSeen(semantic_results \o bm25_results, {}))

Fuse(semantic_results, bm25_results, semantic_weight, bm25_weight, k) ==
  FuseIds(semantic_results, bm25_results, semantic_weight, bm25_weight, k,
          FirstSeen(semantic_results \o bm25_results, {}))

\* _combine_results with the same weight for both lists
_combine_results_equal_weights(semantic_results, bm25_results, k) ==
  Fuse(semantic_results, bm25_results, Frac(5, 10), Frac(5, 10), k)

\* HybridRetriever._combine_results: weights 0.6 and 0.4
_combine_results(semantic_results, bm25_results, k) ==
  Fuse(semantic_results, bm25_results, Frac(6, 10), Frac(4, 10), k)

\* doc.page_content[:500] is tokenized for the keyword overlap
RerankPrefixLen == 500

\* keyword_bonus without the cap on the overlap bonus
keyword_bonus_uncapped(query, doc) ==
  LET query_tokens == Range(_tokenize(query))
      doc_tokens == Range(_tokenize(Prefix(doc.page_content, RerankPrefixLen)))
      overlap == Cardinality(query_tokens \cap doc_tokens)
      phrase == IF Contains(Lower(doc.page_content), Lower(query)) THEN 15 ELSE 0
  IN  Frac(overlap * 2 + phrase, 100)

\* min(overlap * 0.02, 0.2), plus 0.15 for an exact phrase match
keyword_bonus(query, doc) ==
  LET query_tokens == Range(_tokenize(query))
      doc_tokens == Range(_tokenize(Prefix(doc.page_content, RerankPrefixLen)))
      overlap == Cardinality(query_tokens \cap doc_tokens)
      capped == IF overlap * 2 < 20 THEN overlap * 2 ELSE 20
      phrase == IF Contains(Lower(doc.page_content), Lower(query)) THEN 15 ELSE 0
  IN  Frac(capped + phrase, 100)

\* rerank keeping only the candidates that earn a bonus
rerank_matching(query, docs, top_k) ==
  LET matching == SelectIdx(docs, {i \in DOMAIN docs :
                                     keyword_bonus(query, docs[i].doc) # Zero}, 1)
  IN  Prefix(SortedByScoreDesc(
               [i \in DOMAIN matching |->
                  [doc |-> matching[i].doc,
                   score |-> FAdd(matching[i].score,
                                  keyword_bonus(query, matching[i].doc))]]), top_k)

\* rerank adding the bonus without sorting
rerank_unsorted(query, docs, top_k) ==
  Prefix([i \in DOMAIN docs |->
            [doc |-> docs[i].doc,
             score |-> FAdd(docs[i].score, keyword_bonus(query, docs[i].doc))]], top_k)

\* HybridRetriever.rerank
rerank(query, docs, top_k) ==
  LET reranked == [i \in DOMAIN docs |->
                     [doc |-> docs[i].doc,
                      score |-> FAdd(docs[i].score, keyword_bonus(query, docs[i].doc))]]
  IN  Prefix(SortedByScoreDesc(reranked), top_k)

(***************************************************************************)
(* search                                                                  *)
(***************************************************************************)
\* the inner loop of search over filter_dict.items()
FilterMatch(doc, filter_dict) ==
  \A key \in DOMAIN filter_dict : MetaGet(doc.metadata, key, None) = filter_dict[key]

\* search, lines 335-345: `if filter_dict and bm25_results:` keep the matches
filter_bm25(bm25_results, filter_dict) ==
  IF DOMAIN filter_dict # {} /\ bm25_results # << >>
    THEN SelectIdx(bm25_results,
                   {i \in DOMAIN bm25_results : FilterMatch(bm25_results[i].doc, filter_dict)}, 1)
    ELSE bm25_results

\* hybrid_path without the test of self.bm25
hybrid_path_unchecked(use_hybrid) == use_hybrid

\* search, line 328: the hybrid branch is taken only with a built index
hybrid_path(use_hybrid) == use_hybrid /\ bm25.built

\* should_rerank without the emptiness test
should_rerank_any(use_rerank, results) == use_rerank

\* search, line 352: `if use_rerank and results:`
should_rerank(use_rerank, results) == use_rerank /\ results # << >>

\* search_return with k = 0 taken as k = 1
search_return_at_least_one(results, k) == Docs(Prefix(results, IF k = 0 THEN 1 ELSE k))

\* search_return without the final slice
search_return_unsliced(results, k) == Docs(results)

\* search, line 357: [doc for doc, score in results[:k]]
search_return(results, k) == Docs(Prefix(results, k))

\* The calls search makes on the retriever, in order.  c holds the arguments
\* and the locals of search up to the two searches.
search_calls(c, results, do_rerank) ==
  <<[fn |-> "semantic_search", query |-> c.query, k |-> c.sem_k,
     filter_dict |-> c.filter_dict]>>
  \o (IF c.hybrid /\ ~c.sem.raised
        THEN <<[fn |-> "bm25_search", query |-> c.expanded_query, k |-> c.k * 2]>>
        ELSE << >>)
  \o (IF do_rerank /\ ~c.sem.raised
        THEN <<[fn |-> "rerank", query |-> c.query, documents |-> results, top_k |-> c.k]>>
        ELSE << >>)

\* The outcome of search: the returned list (result), whether an exception
\* left search (raised), and the intermediate lists and the calls made, for
\* the properties below.
search_outcome(c, bm25_results, results, final, calls) ==
  IF c.sem.raised
    THEN [raised |-> TRUE, result |-> << >>, hybrid |-> c.hybrid, calls |-> calls,
          semantic_results |-> << >>, bm25_candidates |-> << >>,
          bm25_results |-> << >>, candidates |-> << >>]
    ELSE [raised |-> FALSE, result |-> search_return(final, c.k), hybrid |-> c.hybrid,
          calls |-> calls, semantic_results |-> c.sem.results,
          bm25_candidates |-> c.bm25_candidates, bm25_results |-> bm25_results,
          candidates |-> results]

\* search, lines 352-357: `if use_rerank and results:` rerank against the
\* original query, then return the documents of results[:k]
search_rerank(c, bm25_results, results, do_rerank) ==
  search_outcome(c, bm25_results, results,
                 IF do_rerank THEN rerank(c.query, results, c.k) ELSE results,
                 search_calls(c, results, do_rerank))

\* search, lines 348-350: fuse the two lists, or keep the dense list
search_results(c, bm25_results) ==
  IF c.hybrid
    THEN _combine_results(c.sem.results, bm25_results,
                          IF c.use_rerank THEN c.k * 2 ELSE c.k)
    ELSE c.sem.results

search_ranked(c, bm25_results, results) ==
  search_rerank(c, bm25_results, results, should_rerank(c.use_rerank, results))

search_combine(c, bm25_results) == search_ranked(c, bm25_results, search_results(c, bm25_results))

\* search, lines 331-345: the two searches, then the filter on the BM25 list
search_filter(c) == search_combine(c, filter_bm25(c.bm25_candidates, c.filter_dict))

search_branch(query, k, use_rerank, filter_dict, resp, expanded_query, hybrid, sem_k) ==
  search_filter([query |-> query, k |-> k, use_rerank |-> use_rerank,
                 filter_dict |-> filter_dict, expanded_query |-> expanded_query,
                 hybrid |-> hybrid, sem_k |-> sem_k,
                 sem |-> semantic_search(query, sem_k, filter_dict, resp),
                 bm25_candidates |->
                   IF hybrid THEN bm25_search(expanded_query, k * 2) ELSE << >>])

\* k of the dense call: k*2 on the hybrid branch, else k*2 if use_rerank else k
search_sem_k(k, use_rerank, hybrid) ==
  IF hybrid THEN k * 2 ELSE (IF use_rerank THEN k * 2 ELSE k)

search_expanded(query, k, use_rerank, filter_dict, resp, expanded_query, hybrid) ==
  search_branch(query, k, use_rerank, filter_dict, resp, expanded_query, hybrid,
                search_sem_k(k, use_rerank, hybrid))

\* search giving the expanded query to every stage
search_all_expanded(query, k, use_hybrid, use_rerank, filter_dict, resp) ==
  search_expanded(expand_query(query), k, use_rerank, filter_dict, resp,
                  expand_query(query), hybrid_path(use_hybrid))

\* HybridRetriever.search
search(query, k, use_hybrid, use_rerank, filter_dict, resp) ==
  search_expanded(query, k, use_rerank, filter_dict, resp,
                  expand_query(query), hybrid_path(use_hybrid))

\* hybrid_search, lines 223-256: the dense list alone if BM25 found nothing,
\* else reciprocal rank fusion of the two lists
hybrid_search_combine(sem, bm25_results, k, semantic_weight, bm25_weight) ==
  IF sem.raised THEN [raised |-> TRUE, results |-> << >>]
  ELSE IF bm25_results = << >>
    THEN [raised |-> FALSE, results |-> Prefix(sem.results, k)]
    ELSE [raised |-> FALSE,
          results |-> Fuse(sem.results, bm25_results, semantic_weight, bm25_weight, k)]

\* HybridRetriever.hybrid_search
hybrid_search(query, k, semantic_weight, bm25_weight, resp) ==
  hybrid_search_combine(semantic_search(query, k * 3, << >>, resp),
                        bm25_search(query, k * 3), k, semantic_weight, bm25_weight)

\* search_with_scores, lines 399-403: rerank if asked and non-empty, slice
search_with_scores_rerank(query, k, use_rerank, found) ==
  [raised |-> found.raised,
   results |-> IF found.raised THEN << >>
               ELSE IF use_rerank /\ found.results # << >>
                 THEN Prefix(rerank(query, found.results, k), k)
                 ELSE Prefix(found.results, k)]

search_with_scores_k(query, k, use_hybrid, use_rerank, resp, kk) ==
  search_with_scores_rerank(query, k, use_rerank,
    IF use_hybrid /\ bm25.built
      THEN hybrid_search(query, kk, Frac(6, 10), Frac(4, 10), resp)
      ELSE semantic_search(query, kk, << >>, resp))

\* HybridRetriever.search_with_scores
search_with_scores(query, k, use_hybrid, use_rerank, resp) ==
  search_with_scores_k(query, k, use_hybrid, use_rerank, resp,
                       IF use_rerank THEN k * 2 ELSE k)

(***************************************************************************)
(* Inputs                                                                  *)
(***************************************************************************)
\* "tax law": contains the table key "tax"
QueryTaxLaw == <<"t","a","x"," ","l","a","w">>

\* "Sales": contains no table key
QuerySales == <<"S","a","l","e","s">>

Queries == {QueryTaxLaw, QuerySales}

TextIncomeTaxLaw == <<"I","n","c","o","m","e"," ","t","a","x"," ","l","a","w">>
TextSalesTax == <<"s","a","l","e","s"," ","t","a","x">>
TextTaxLaw == <<"t","a","x"," ","l","a","w">>
TextFbrSales == <<"F","B","R"," ","s","a","l","e","s">>

D1 == [page_content |-> TextIncomeTaxLaw,
       metadata |-> [source |-> "a.pdf", page |-> "1", department |-> "criminal_laws"]]
D2 == [page_content |-> TextSalesTax,
       metadata |-> [source |-> "a.pdf", page |-> "2", department |-> "criminal_laws"]]
\* the chunk of D2 stored a second time, under another department
D2b == [page_content |-> TextSalesTax,
        metadata |-> [source |-> "a.pdf", page |-> "2", department |-> "pta_laws"]]
\* a chunk whose metadata has no department
D3 == [page_content |-> TextTaxLaw, metadata |-> [source |-> "b.pdf", page |-> "1"]]
D4 == [page_content |-> TextFbrSales,
       metadata |-> [source |-> "c.pdf", page |-> "1", department |-> "pta_laws"]]

\* the `documents` argument of the constructor
Corpora == { << >>, <<D1, D2, D3, D4>>, <<D1, D2, D2b>> }

\* the Documents the vector store answers with
DenseDocs == {D1, D2, D2b, D4}

\* filter_dict: none, a department, a department of None
NoFilter == << >>
Filters == {NoFilter, [department |-> "pta_laws"], [department |-> None]}

MaxK == 2
MaxDense == 2

SeqsUpTo(S, n) == UNION {[1..m -> S] : m \in 0..n}

DenseResponses ==
  {[raises |-> TRUE, results |-> << >>]}
  \cup {[raises |-> FALSE,
         results |-> [i \in DOMAIN ds |->
                        [doc |-> ds[i],
                         distance |-> IF equal THEN Frac(0, 1) ELSE Frac(i - 1, 10)]]] :
          ds \in SeqsUpTo(DenseDocs, MaxDense), equal \in BOOLEAN}

(***************************************************************************)
(* The chat pipeline (src/ChatBot/chatbotlogic.py, src/ChatBot/api.py).    *)
(* env is what the surroundings do during one request: whether the API key *)
(* is set, whether a vector store loads, whether the hybrid retriever can  *)
(* be had, the vector store's answer, and whether each model call succeeds.*)
(* A model's reply is kept as the name of the path that produced it.       *)
(***************************************************************************)
\* get_basic_response
get_basic_response(env) ==
  IF ~env.groq_api_key THEN "key_missing"
  ELSE IF env.primary_ok THEN "basic_primary"
  ELSE IF env.fallback_ok THEN "basic_fallback"
  ELSE "basic_both_failed"

\* the result of get_rag_response on its fallback to get_basic_response
basic_result(env, retrieved_docs) ==
  [response |-> get_basic_response(env), sources |-> << >>, context_used |-> FALSE,
   raised |-> FALSE, retrieved_docs |-> retrieved_docs]

\* doc.page_content[:150] + "..."
PreviewLen == 150

\* get_rag_response, lines 181-193: one source entry per retrieved Document
sources_of(retrieved_docs) ==
  [i \in DOMAIN retrieved_docs |->
     [source |-> MetaGet(retrieved_docs[i].metadata, "source", "Unknown"),
      page |-> MetaGet(retrieved_docs[i].metadata, "page", "N/A"),
      preview |-> Prefix(retrieved_docs[i].page_content, PreviewLen) \o <<".", ".", ".">>]]

\* rag_answer that keeps the sources and the flag when both model calls fail
rag_answer_keeping_sources(env, retrieved_docs) ==
  IF retrieved_docs = << >> THEN basic_result(env, retrieved_docs)
  ELSE [response |-> IF env.primary_ok THEN "rag_primary"
                     ELSE IF env.fallback_ok THEN "rag_fallback" ELSE "rag_both_failed",
        sources |-> sources_of(retrieved_docs), context_used |-> TRUE,
        raised |-> FALSE, retrieved_docs |-> retrieved_docs]

\* get_rag_response, lines 170-249: no documents, else the two model calls
rag_answer(env, retrieved_docs) ==
  IF retrieved_docs = << >> THEN basic_result(env, retrieved_docs)
  ELSE IF env.primary_ok
    THEN [response |-> "rag_primary", sources |-> sources_of(retrieved_docs),
          context_used |-> TRUE, raised |-> FALSE, retrieved_docs |-> retrieved_docs]
  ELSE IF env.fallback_ok
    THEN [response |-> "rag_fallback", sources |-> sources_of(retrieved_docs),
          context_used |-> TRUE, raised |-> FALSE, retrieved_docs |-> retrieved_docs]
  ELSE [response |-> "rag_both_failed", sources |-> << >>, context_used |-> FALSE,
        raised |-> FALSE, retrieved_docs |-> retrieved_docs]

\* VectorStoreManager.search: similarity_search, [] if it raises
vector_store_search(resp) == IF resp.raises THEN << >> ELSE Docs(resp.results)

\* get_rag_response, lines 154-175 and 251-257: an exception of the retrieval
\* falls back to the basic response
rag_retrieved(env, found) ==
  IF found.raised THEN basic_result(env, << >>) ELSE rag_answer(env, found.result)

\* get_rag_response, lines 156-168: the hybrid retriever if there is one, else
\* the vector store's own search
rag_retrieve(user_input, k, env) ==
  IF env.hybrid_available
    THEN rag_retrieved(env, search(user_input, k, TRUE, TRUE, NoFilter, env.resp))
    ELSE rag_retrieved(env, [raised |-> FALSE, result |-> vector_store_search(env.resp)])

\* the filter_dict given to retriever.search by get_rag_response (lines
\* 160-165 pass none), None if search is not called
rag_filter_used(env) ==
  IF env.groq_api_key /\ env.store_loaded /\ env.hybrid_available THEN NoFilter ELSE None

\* get_rag_response(user_input, k)
get_rag_response(user_input, k, env) ==
  IF ~env.groq_api_key
    THEN [response |-> "key_missing", sources |-> << >>, context_used |-> FALSE,
          raised |-> FALSE, retrieved_docs |-> << >>]
  ELSE IF ~env.store_loaded THEN basic_result(env, << >>)
  ELSE rag_retrieve(user_input, k, env)

\* the parameters of get_rag_response: def get_rag_response(user_input, k=5)
get_rag_response_params == {"user_input", "k"}

DefaultK == 5

\* Python binds a call's keyword arguments to parameters of these names; a
\* keyword that names no parameter raises TypeError before the body runs
accepts(params, keywords) == keywords \subseteq params

\* api.py, CATEGORY_FILTER_MAP
CATEGORY_FILTER_MAP ==
  [c \in {"cyber", "criminal", "Family", "labour", "Property", "constitutional", "general"} |->
     CASE c = "cyber" -> "pta_laws"
       [] c = "criminal" -> "criminal_laws"
       [] c = "Family" -> "Family_Laws"
       [] c = "labour" -> "Labour_Laws"
       [] c = "Property" -> "Land-Property_Laws"
       [] c = "constitutional" -> None
       [] c = "general" -> None]

\* chat, lines 56-60: the filter for the request's category
category_filter(category) ==
  IF category # None /\ category # "" /\ category \in DOMAIN CATEGORY_FILTER_MAP
     /\ CATEGORY_FILTER_MAP[category] # None
    THEN [department |-> CATEGORY_FILTER_MAP[category]]
    ELSE None

\* chat, lines 63-67 and 71-76: the ChatResponse of the result, or of the error
chat_response(called, result, filter_used) ==
  IF called
    THEN [response |-> result.response, sources |-> result.sources,
          context_used |-> result.context_used, accepted |-> TRUE,
          filter_used |-> filter_used]
    ELSE [response |-> "Sorry, an error occurred", sources |-> << >>,
          context_used |-> FALSE, accepted |-> FALSE, filter_used |-> None]

\* chat, line 62: get_rag_response(request.message, category_filter=category_filter)
chat_rag(request, env) ==
  IF accepts(get_rag_response_params, {"category_filter"})
    THEN chat_response(TRUE, get_rag_response(request.message, DefaultK, env),
                       rag_filter_used(env))
    ELSE chat_response(FALSE, << >>, None)

\* POST /api/chat
chat(request, env) ==
  IF request.use_rag THEN chat_rag(request, env)
  ELSE [response |-> get_basic_response(env), sources |-> << >>, context_used |-> FALSE,
        accepted |-> TRUE, filter_used |-> None]

(***************************************************************************)
(* The retriever as a state machine: construction, then calls              *)
(***************************************************************************)
NoCall == [op |-> "none"]

(***************************************************************************)
(* chatbotlogic.py after import, before any call: nothing is cached        *)
(***************************************************************************)
MaxThreads == 2
MaxCalls == 3

Threads == 1..MaxThreads

\* the two persist directories load_vector_store tries, in its order
Dirs == <<"vectorstores/chroma_db_full", "vectorstores/chroma_db_test">>

\* _vector_store_manager = None; a manager is known by the call that made it
NoManager == [call |-> 0, dir |-> "none", vectorstore |-> "none"]

\* _hybrid_retriever = None; a HybridRetriever is known by the call that made it
NoRetriever == 0

\* a thread outside of any call
Idle == [pc |-> "idle", op |-> "none", call |-> 0, manager |-> NoManager,
         vector_store |-> NoManager, result |-> "none", raised |-> FALSE]

NothingLoaded ==
  /\ RAG_AVAILABLE = TRUE
  /\ HYBRID_AVAILABLE = TRUE
  /\ _vector_store_manager = NoManager
  /\ _hybrid_retriever = NoRetriever
  /\ disk = [d \in Range(Dirs) |-> "absent"]
  /\ started = 0
  /\ constructed = {}
  /\ handed_out = {}
  /\ frames = [t \in Threads |-> Idle]

Init ==
  /\ \E docs \in Corpora :
       LET r == HybridRetrieverInit(docs)
       IN  /\ documents = r.documents
           /\ tokenized_docs = r.tokenized_docs
           /\ bm25 = r.bm25
  /\ argsort_ties \in {"index_desc", "index_asc"}
  /\ last = NoCall
  /\ prev = NoCall
  /\ NothingLoaded

SearchCall ==
  /\ last = NoCall
  /\ \E query \in Queries, k \in 0..MaxK, use_hybrid \in BOOLEAN, use_rerank \in BOOLEAN,
        filter_dict \in Filters, resp \in DenseResponses :
       last' = [op |-> "search", query |-> query, k |-> k, use_hybrid |-> use_hybrid,
                use_rerank |-> use_rerank, filter_dict |-> filter_dict, resp |-> resp,
                out |-> search(query, k, use_hybrid, use_rerank, filter_dict, resp)]
  /\ UNCHANGED <<documents, tokenized_docs, bm25, argsort_ties, prev>>
  /\ UNCHANGED chatbot

\* the same call a second time, the vector store answering as before
SearchAgain ==
  /\ last.op = "search"
  /\ prev = NoCall
  /\ prev' = last
  /\ last' = [last EXCEPT !.out = search(last.query, last.k, last.use_hybrid,
                                         last.use_rerank, last.filter_dict, last.resp)]
  /\ UNCHANGED <<documents, tokenized_docs, bm25, argsort_ties>>
  /\ UNCHANGED chatbot

\* Bm25SearchCall keeping the tokenized query in self.tokenized_docs
Bm25SearchCallStoring ==
  /\ last = NoCall
  /\ \E query \in Queries, k \in 0..MaxK :
       /\ last' = [op |-> "bm25_search", query |-> query, k |-> k,
                   out |-> bm25_search(query, k)]
       /\ tokenized_docs' = Append(tokenized_docs, _tokenize(query))
  /\ UNCHANGED <<documents, bm25, argsort_ties, prev>>
  /\ UNCHANGED chatbot

Bm25SearchCall ==
  /\ last = NoCall
  /\ \E query \in Queries, k \in 0..MaxK :
       last' = [op |-> "bm25_search", query |-> query, k |-> k,
                out |-> bm25_search(query, k)]
  /\ UNCHANGED <<documents, tokenized_docs, bm25, argsort_ties, prev>>
  /\ UNCHANGED chatbot

HybridSearchCall ==
  /\ last = NoCall
  /\ \E query \in Queries, k \in 0..MaxK, resp \in DenseResponses :
       last' = [op |-> "hybrid_search", query |-> query, k |-> k, resp |-> resp,
                semantic_weight |-> Frac(6, 10), bm25_weight |-> Frac(4, 10),
                out |-> hybrid_search(query, k, Frac(6, 10), Frac(4, 10), resp)]
  /\ UNCHANGED <<documents, tokenized_docs, bm25, argsort_ties, prev>>
  /\ UNCHANGED chatbot

SearchWithScoresCall ==
  /\ last = NoCall
  /\ \E query \in Queries, k \in 0..MaxK, use_hybrid \in BOOLEAN, use_rerank \in BOOLEAN,
        resp \in DenseResponses :
       last' = [op |-> "search_with_scores", query |-> query, k |-> k,
                use_hybrid |-> use_hybrid, use_rerank |-> use_rerank, resp |-> resp,
                out |-> search_with_scores(query, k, use_hybrid, use_rerank, resp)]
  /\ UNCHANGED <<documents, tokenized_docs, bm25, argsort_ties, prev>>
  /\ UNCHANGED chatbot

RerankCall ==
  /\ last = NoCall
  /\ \E query \in Queries, top_k \in 0..MaxK, resp \in DenseResponses :
       LET docs == semantic_search(query, top_k, NoFilter, resp).results
       IN  last' = [op |-> "rerank", query |-> query, top_k |-> top_k, documents |-> docs,
                    out |-> rerank(query, docs, top_k)]
  /\ UNCHANGED <<documents, tokenized_docs, bm25, argsort_ties, prev>>
  /\ UNCHANGED chatbot

\* the caller is done with the outcome
Return ==
  /\ last # NoCall
  /\ last' = NoCall
  /\ prev' = NoCall
  /\ UNCHANGED <<documents, tokenized_docs, bm25, argsort_ties>>
  /\ UNCHANGED chatbot

Next ==
  \/ SearchCall
  \/ SearchAgain
  \/ Bm25SearchCall
  \/ HybridSearchCall
  \/ SearchWithScoresCall
  \/ RerankCall
  \/ Return

Spec == Init /\ [][Next]_vars

(***************************************************************************)
(* expand_query on its own: queries of up to MaxWords words                *)
(***************************************************************************)
\* the key "tax": five synonyms, three of them of two words
WordTax == <<"t","a","x">>

\* the key "FIR" as the table spells it
WordFIR == <<"F","I","R">>

\* a synonym of "tax" in another case
WordFbr == <<"f","b","r">>

\* the key "theft" capitalised; also a synonym of "robbery"
WordTheft == <<"T","h","e","f","t">>

\* the key "robbery": four synonyms; also a synonym of "theft"
WordRobbery == <<"r","o","b","b","e","r","y">>

\* the key "bail", late in the table
WordBail == <<"b","a","i","l">>

\* the key "dower"
WordDower == <<"d","o","w","e","r">>

\* all the synonyms of "dower"
WordsMehr == <<"h","a","q"," ","m","e","h","r"," ","m","a","h","r"," ","d","o","w","r","y">>

\* no key and no synonym
WordLaw == <<"l","a","w">>

Words == {WordTax, WordFIR, WordFbr, WordTheft, WordRobbery, WordBail, WordDower, WordsMehr, WordLaw}

MaxWords == 2

\* the keys of the table, each as a query
KeyQueries == {LEGAL_SYNONYMS[i].term : i \in DOMAIN LEGAL_SYNONYMS}

\* the words of a query joined by single spaces; the empty query is one of them
ExpandQueries == {JoinSpace(ws) : ws \in SeqsUpTo(Words, MaxWords)} \cup KeyQueries

ExpandInit ==
  /\ documents = << >>
  /\ tokenized_docs = << >>
  /\ bm25 = NoBM25
  /\ argsort_ties = "index_desc"
  /\ last = NoCall
  /\ prev = NoCall
  /\ NothingLoaded

\* expand_query(query); expansions is the list before the cut to five
ExpandQueryCall ==
  /\ last = NoCall
  /\ \E query \in ExpandQueries :
       last' = [op |-> "expand_query", query |-> query,
                expansions |-> Expansions(LEGAL_SYNONYMS, Lower(query)),
                out |-> expand_query(query)]
  /\ UNCHANGED <<documents, tokenized_docs, bm25, argsort_ties, prev>>
  /\ UNCHANGED chatbot

ExpandNext ==
  \/ ExpandQueryCall
  \/ Return

ExpandSpec == ExpandInit /\ [][ExpandNext]_vars

(***************************************************************************)
(* _combine_results on its own: a dense list of up to MaxFused chunks and  *)
(* a lexical list of up to MaxLexical                                      *)
(***************************************************************************)
MaxFused == 31
MaxLexical == 2

\* the i-th chunk of a long document: a page of i letters
Chunk(i) ==
  [page_content |-> [j \in 1..i |-> "a"],
   metadata |-> [source |-> "long.pdf", page |-> "1"]]

\* semantic_search's list of the n nearest chunks, the similarity falling
LongDense(n) == [i \in 1..n |-> [doc |-> Chunk(i), score |-> Frac(1, i)]]

\* bm25_search's lists: the normalised score falls from 1
LexicalLists ==
  {[i \in DOMAIN ds |-> [doc |-> ds[i], score |-> Frac(1, i)]] :
     ds \in SeqsUpTo({D1, D2, Chunk(1)}, MaxLexical)}

CombineResultsCall ==
  /\ last = NoCall
  /\ \E n \in 0..MaxFused, bm25_results \in LexicalLists, k \in {1, MaxFused + MaxLexical} :
       last' = [op |-> "_combine_results", semantic_results |-> LongDense(n),
                bm25_results |-> bm25_results, k |-> k,
                out |-> _combine_results(LongDense(n), bm25_results, k)]
  /\ UNCHANGED <<documents, tokenized_docs, bm25, argsort_ties, prev>>
  /\ UNCHANGED chatbot

FuseNext ==
  \/ CombineResultsCall
  \/ Return

FuseSpec == ExpandInit /\ [][FuseNext]_vars

(***************************************************************************)
(* rerank on its own: queries of up to MaxLetters distinct tokens and      *)
(* lists of up to MaxCandidates candidates                                 *)
(***************************************************************************)
MaxLetters == 11
MaxCandidates == 2

\* "a b c ...": n one-letter words
QueryLetters(n) == JoinSpace([i \in 1..n |-> <<LowerChars[i]>>])

\* a chunk holding the first n letters as words, in order
LettersDoc(n) ==
  [page_content |-> QueryLetters(n), metadata |-> [source |-> "l.pdf", page |-> "1"]]

\* the same words from the last to the first
RevLettersDoc(n) ==
  [page_content |-> JoinSpace([i \in 1..n |-> <<LowerChars[n + 1 - i]>>]),
   metadata |-> [source |-> "l.pdf", page |-> "2"]]

\* a chunk that says "tax law" after its first RerankPrefixLen characters
LongDoc ==
  [page_content |-> [i \in 1..RerankPrefixLen |-> "x"] \o <<" ">> \o TextTaxLaw,
   metadata |-> [source |-> "l.pdf", page |-> "3"]]

RerankQueries == {QueryTaxLaw, QueryLetters(2), QueryLetters(MaxLetters)}

RerankDocs ==
  {D1, LongDoc, LettersDoc(MaxLetters - 1), LettersDoc(MaxLetters),
   RevLettersDoc(MaxLetters)}

\* the `documents` argument: fused scores falling with the rank, or
\* similarities that are all equal
CandidateLists ==
  {[i \in DOMAIN ds |->
      [doc |-> ds[i], score |-> IF equal THEN Frac(1, 2) ELSE Frac(1, rrf_constant + i - 1)]] :
     ds \in SeqsUpTo(RerankDocs, MaxCandidates), equal \in BOOLEAN}

RerankListCall ==
  /\ last = NoCall
  /\ \E query \in RerankQueries, docs \in CandidateLists, top_k \in {1, MaxCandidates} :
       last' = [op |-> "rerank", query |-> query, top_k |-> top_k, documents |-> docs,
                out |-> rerank(query, docs, top_k)]
  /\ UNCHANGED <<documents, tokenized_docs, bm25, argsort_ties, prev>>
  /\ UNCHANGED chatbot

RerankNext ==
  \/ RerankListCall
  \/ Return

RerankSpec == ExpandInit /\ [][RerankNext]_vars


(***************************************************************************)
(* The chat pipeline as a state machine: requests to POST /api/chat and    *)
(* calls of get_rag_response, on a retriever built as above                *)
(***************************************************************************)
\* the vector store's answers of at most one Document
ChatResponses == {r \in DenseResponses : Len(r.results) <= 1}

Envs ==
  [groq_api_key : BOOLEAN, store_loaded : BOOLEAN, hybrid_available : BOOLEAN,
   resp : ChatResponses, primary_ok : BOOLEAN, fallback_ok : BOOLEAN]

\* request.category: absent, empty, keys of the map, a name the map lacks
Categories == {None, "", "cyber", "criminal", "constitutional", "other"}

ChatCall ==
  /\ last = NoCall
  /\ \E message \in Queries, use_rag \in BOOLEAN, category \in Categories, env \in Envs :
       last' = [op |-> "chat", message |-> message, use_rag |-> use_rag,
                category |-> category, env |-> env,
                out |-> chat([message |-> message, use_rag |-> use_rag,
                              category |-> category], env)]
  /\ UNCHANGED <<documents, tokenized_docs, bm25, argsort_ties, prev>>
  /\ UNCHANGED chatbot

GetRagResponseCall ==
  /\ last = NoCall
  /\ \E user_input \in Queries, k \in {1, DefaultK}, env \in Envs :
       last' = [op |-> "get_rag_response", user_input |-> user_input, k |-> k, env |-> env,
                out |-> get_rag_response(user_input, k, env)]
  /\ UNCHANGED <<documents, tokenized_docs, bm25, argsort_ties, prev>>
  /\ UNCHANGED chatbot

ChatNext ==
  \/ ChatCall
  \/ GetRagResponseCall
  \/ Return

ChatSpec == Init /\ [][ChatNext]_vars

(***************************************************************************)
(* The two model calls of get_basic_response and get_rag_response, one     *)
(* step per invocation: a call in progress is the record `last`, its       *)
(* `invoked` the models invoked so far with the outcome of each, its `pc`  *)
(* the model to invoke next.                                               *)
(***************************************************************************)
\* MODEL_PRIMARY and MODEL_FALLBACK left unset
primary_model == "llama-3.3-70b-versatile"
fallback_model == "llama-3.1-70b-versatile"

\* what the surroundings do before a model is called
RetrievalEnvs ==
  [groq_api_key : BOOLEAN, store_loaded : BOOLEAN, hybrid_available : BOOLEAN,
   resp : ChatResponses]

\* the text returned: the answer of a model, or the 'Both models failed' message
reply(path, outcome) ==
  CASE path = "basic" /\ outcome = "primary" -> "basic_primary"
    [] path = "basic" /\ outcome = "fallback" -> "basic_fallback"
    [] path = "basic" /\ outcome = "both_failed" -> "basic_both_failed"
    [] path = "rag" /\ outcome = "primary" -> "rag_primary"
    [] path = "rag" /\ outcome = "fallback" -> "rag_fallback"
    [] path = "rag" /\ outcome = "both_failed" -> "rag_both_failed"

\* the value a call returns once a model answered or both raised
returned_value(frame, outcome) ==
  IF frame.op = "get_basic_response" THEN reply("basic", outcome)
  ELSE IF frame.path = "basic" \/ outcome = "both_failed"
    THEN [response |-> reply(frame.path, outcome), sources |-> << >>,
          context_used |-> FALSE, raised |-> FALSE, retrieved_docs |-> frame.retrieved_docs]
  ELSE [response |-> reply(frame.path, outcome), sources |-> sources_of(frame.retrieved_docs),
        context_used |-> TRUE, raised |-> FALSE, retrieved_docs |-> frame.retrieved_docs]

\* get_rag_response, lines 154-168 and 251-257: what the retrieval found, nothing
\* if it raised
rag_found(found) == IF found.raised THEN << >> ELSE found.result

\* get_rag_response, lines 145-168: retrieved_docs, empty without a vector store
retrieved_docs_of(user_input, k, env) ==
  IF ~env.store_loaded THEN << >>
  ELSE IF env.hybrid_available
    THEN rag_found(search(user_input, k, TRUE, TRUE, NoFilter, env.resp))
  ELSE vector_store_search(env.resp)

\* get_rag_response up to its first model call: the key is missing, or the
\* models are asked without context (get_basic_response), or with it
rag_entered(user_input, k, env, docs) ==
  IF ~env.groq_api_key
    THEN [op |-> "get_rag_response", user_input |-> user_input, k |-> k, env |-> env,
          path |-> "none", retrieved_docs |-> << >>, pc |-> "done", invoked |-> << >>,
          out |-> [response |-> "key_missing", sources |-> << >>, context_used |-> FALSE,
                   raised |-> FALSE, retrieved_docs |-> << >>]]
    ELSE [op |-> "get_rag_response", user_input |-> user_input, k |-> k, env |-> env,
          path |-> IF docs = << >> THEN "basic" ELSE "rag", retrieved_docs |-> docs,
          pc |-> "primary", invoked |-> << >>, out |-> None]

\* get_basic_response up to its first model call
basic_entered(user_input, groq_api_key) ==
  IF ~groq_api_key
    THEN [op |-> "get_basic_response", user_input |-> user_input,
          env |-> [groq_api_key |-> FALSE], path |-> "none", retrieved_docs |-> << >>,
          pc |-> "done", invoked |-> << >>, out |-> "key_missing"]
    ELSE [op |-> "get_basic_response", user_input |-> user_input,
          env |-> [groq_api_key |-> TRUE], path |-> "basic", retrieved_docs |-> << >>,
          pc |-> "primary", invoked |-> << >>, out |-> None]

\* chat_primary.invoke that gives the call up when it raises
invoke_primary_only(frame, raises) ==
  IF raises
    THEN [frame EXCEPT !.invoked = Append(@, [model |-> primary_model, raised |-> TRUE]),
                       !.pc = "done", !.out = returned_value(frame, "both_failed")]
    ELSE [frame EXCEPT !.invoked = Append(@, [model |-> primary_model, raised |-> FALSE]),
                       !.pc = "done", !.out = returned_value(frame, "primary")]

\* chat_primary.invoke(messages): return its answer, or go on to the fallback
invoke_primary(frame, raises) ==
  IF raises
    THEN [frame EXCEPT !.invoked = Append(@, [model |-> primary_model, raised |-> TRUE]),
                       !.pc = "fallback"]
    ELSE [frame EXCEPT !.invoked = Append(@, [model |-> primary_model, raised |-> FALSE]),
                       !.pc = "done", !.out = returned_value(frame, "primary")]

\* chat_fallback.invoke(messages) in the handler of the primary's exception
invoke_fallback(frame, raises) ==
  IF raises
    THEN [frame EXCEPT !.invoked = Append(@, [model |-> fallback_model, raised |-> TRUE]),
                       !.pc = "done", !.out = returned_value(frame, "both_failed")]
    ELSE [frame EXCEPT !.invoked = Append(@, [model |-> fallback_model, raised |-> FALSE]),
                       !.pc = "done", !.out = returned_value(frame, "fallback")]

GetBasicResponseEnter ==
  /\ last = NoCall
  /\ \E user_input \in Queries, groq_api_key \in BOOLEAN :
       last' = basic_entered(user_input, groq_api_key)
  /\ UNCHANGED <<documents, tokenized_docs, bm25, argsort_ties, prev>>
  /\ UNCHANGED chatbot

GetRagResponseEnter ==
  /\ last = NoCall
  /\ \E user_input \in Queries, k \in {1, DefaultK}, env \in RetrievalEnvs :
       last' = rag_entered(user_input, k, env, retrieved_docs_of(user_input, k, env))
  /\ UNCHANGED <<documents, tokenized_docs, bm25, argsort_ties, prev>>
  /\ UNCHANGED chatbot

InvokePrimary ==
  /\ last # NoCall
  /\ last.pc = "primary"
  /\ \E raises \in BOOLEAN : last' = invoke_primary(last, raises)
  /\ UNCHANGED <<documents, tokenized_docs, bm25, argsort_ties, prev>>
  /\ UNCHANGED chatbot

InvokeFallback ==
  /\ last # NoCall
  /\ last.pc = "fallback"
  /\ \E raises \in BOOLEAN : last' = invoke_fallback(last, raises)
  /\ UNCHANGED <<documents, tokenized_docs, bm25, argsort_ties, prev>>
  /\ UNCHANGED chatbot

ResponseReturned ==
  /\ last # NoCall
  /\ last.pc = "done"
  /\ last' = NoCall
  /\ UNCHANGED <<documents, tokenized_docs, bm25, argsort_ties, prev>>
  /\ UNCHANGED chatbot

FallbackNext ==
  \/ GetBasicResponseEnter
  \/ GetRagResponseEnter
  \/ InvokePrimary
  \/ InvokeFallback
  \/ ResponseReturned

FallbackSpec == Init /\ [][FallbackNext]_vars

(***************************************************************************)
(* load_vector_store and get_hybrid_retriever, called by MaxThreads        *)
(* threads.  A step of a thread is a stretch of one function between two   *)
(* points at which another thread may run.  A directory of disk is         *)
(* "absent", "empty" (the directory without a store) or "store".           *)
(***************************************************************************)
retriever_unchanged == UNCHANGED <<documents, tokenized_docs, bm25, argsort_ties, last, prev>>

flags_unchanged == UNCHANGED <<RAG_AVAILABLE, HYBRID_AVAILABLE>>

SingletonInit ==
  /\ documents = << >>
  /\ tokenized_docs = << >>
  /\ bm25 = NoBM25
  /\ argsort_ties = "index_desc"
  /\ last = NoCall
  /\ prev = NoCall
  /\ RAG_AVAILABLE \in BOOLEAN
  /\ HYBRID_AVAILABLE \in BOOLEAN
  /\ _vector_store_manager = NoManager
  /\ _hybrid_retriever = NoRetriever
  /\ disk \in [Range(Dirs) -> {"absent", "store"}]
  /\ started = 0
  /\ constructed = {}
  /\ handed_out = {}
  /\ frames = [t \in Threads |-> Idle]

\* a thread enters load_vector_store() or get_hybrid_retriever()
Call(t) ==
  /\ frames[t].pc = "idle"
  /\ started < MaxCalls
  /\ started' = started + 1
  /\ \E op \in {"load_vector_store", "get_hybrid_retriever"} :
       frames' = [frames EXCEPT ![t] =
                    [Idle EXCEPT !.op = op, !.call = started + 1,
                                 !.pc = IF op = "load_vector_store"
                                          THEN "load_check" ELSE "hybrid_check"]]
  /\ UNCHANGED <<_vector_store_manager, _hybrid_retriever, disk, constructed, handed_out>>
  /\ flags_unchanged
  /\ retriever_unchanged

\* load_vector_store returns `value` to its caller: to the thread itself, or
\* to get_hybrid_retriever at line 104
load_returns(t, value) ==
  IF frames[t].op = "load_vector_store"
    THEN [frames EXCEPT ![t].pc = "done", ![t].vector_store = value,
                        ![t].result = IF value = NoManager THEN "None" ELSE "manager"]
    ELSE [frames EXCEPT ![t].pc = "hybrid_loaded", ![t].vector_store = value]

\* load_vector_store, lines 57-61
LoadCheck(t) ==
  /\ frames[t].pc = "load_check"
  /\ frames' = IF _vector_store_manager # NoManager
                 THEN load_returns(t, _vector_store_manager)
               ELSE IF ~RAG_AVAILABLE THEN load_returns(t, NoManager)
               ELSE [frames EXCEPT ![t].pc = "init_full"]
  /\ UNCHANGED <<_vector_store_manager, _hybrid_retriever, disk, started, constructed, handed_out>>
  /\ flags_unchanged
  /\ retriever_unchanged

\* the directory a thread at this position is working on
DirAt(pc) == IF pc \in {"init_full", "load_full"} THEN Dirs[1] ELSE Dirs[2]

\* VectorStoreManager.__init__ (lines 65 and 76): os.makedirs(persist_directory,
\* exist_ok=True) creates the directory, or raises and load_vector_store
\* returns None from its except clause (lines 89-91)
ManagerInit(t) ==
  /\ frames[t].pc \in {"init_full", "init_test"}
  /\ \E made \in BOOLEAN :
       IF made
         THEN /\ disk' = [disk EXCEPT ![DirAt(frames[t].pc)] =
                            IF @ = "absent" THEN "empty" ELSE @]
              /\ frames' = [frames EXCEPT
                              ![t].pc = IF frames[t].pc = "init_full"
                                          THEN "load_full" ELSE "load_test",
                              ![t].manager = [call |-> frames[t].call,
                                              dir |-> DirAt(frames[t].pc),
                                              vectorstore |-> "none"]]
         ELSE /\ disk' = disk
              /\ frames' = [load_returns(t, NoManager) EXCEPT ![t].raised = TRUE]
  /\ UNCHANGED <<_vector_store_manager, _hybrid_retriever, started, constructed, handed_out>>
  /\ flags_unchanged
  /\ retriever_unchanged

\* VectorStoreManager.load_vectorstore: None if the directory does not exist
\* or Chroma raises, else the store opened on the directory
load_vectorstore(dir, opened) ==
  IF disk[dir] = "absent" \/ ~opened THEN "none" ELSE disk[dir]

\* load_vector_store, lines 70-73 and 81-87: keep the manager whose store
\* loaded; after the full store try the test store, after that return None
ManagerLoad(t) ==
  /\ frames[t].pc \in {"load_full", "load_test"}
  /\ \E opened \in BOOLEAN :
       LET vectorstore == load_vectorstore(frames[t].manager.dir, opened)
           manager == [frames[t].manager EXCEPT !.vectorstore = vectorstore]
       IN  IF vectorstore # "none"
             THEN /\ _vector_store_manager' = manager
                  /\ frames' = load_returns(t, manager)
             ELSE /\ _vector_store_manager' = _vector_store_manager
                  /\ frames' = [(IF frames[t].pc = "load_full"
                                   THEN [frames EXCEPT ![t].pc = "init_test"]
                                   ELSE load_returns(t, NoManager))
                                  EXCEPT ![t].raised = @ \/ ~opened]
  /\ UNCHANGED <<_hybrid_retriever, disk, started, constructed, handed_out>>
  /\ flags_unchanged
  /\ retriever_unchanged

\* get_hybrid_retriever returns `value`
hybrid_returns(t, value) ==
  [frames EXCEPT ![t].pc = "done",
                 ![t].result = IF value = NoRetriever THEN "None" ELSE "retriever"]

\* get_hybrid_retriever, lines 98-104
HybridCheck(t) ==
  /\ frames[t].pc = "hybrid_check"
  /\ IF ~HYBRID_AVAILABLE
       THEN frames' = hybrid_returns(t, NoRetriever) /\ handed_out' = handed_out
     ELSE IF _hybrid_retriever # NoRetriever
       THEN /\ frames' = hybrid_returns(t, _hybrid_retriever)
            /\ handed_out' = handed_out \cup {_hybrid_retriever}
     ELSE frames' = [frames EXCEPT ![t].pc = "load_check"] /\ handed_out' = handed_out
  /\ UNCHANGED <<_vector_store_manager, _hybrid_retriever, disk, started, constructed>>
  /\ flags_unchanged
  /\ retriever_unchanged

\* get_hybrid_retriever, lines 105-122: without a store return None; else
\* build the documents and construct the HybridRetriever, which is stored
\* and handed_out, or raises and None is handed_out
HybridBuild(t) ==
  /\ frames[t].pc = "hybrid_loaded"
  /\ \E built \in BOOLEAN :
       IF frames[t].vector_store = NoManager \/ frames[t].vector_store.vectorstore = "none"
            \/ ~built
         THEN /\ frames' = hybrid_returns(t, NoRetriever)
              /\ UNCHANGED <<_hybrid_retriever, constructed, handed_out>>
         ELSE /\ _hybrid_retriever' = frames[t].call
              /\ constructed' = constructed \cup {frames[t].call}
              /\ handed_out' = handed_out \cup {frames[t].call}
              /\ frames' = hybrid_returns(t, frames[t].call)
  /\ UNCHANGED <<_vector_store_manager, disk, started>>
  /\ flags_unchanged
  /\ retriever_unchanged

\* the caller goes on with the value it got
Returned(t) ==
  /\ frames[t].pc = "done"
  /\ frames' = [frames EXCEPT ![t] = Idle]
  /\ UNCHANGED <<_vector_store_manager, _hybrid_retriever, disk, started, constructed, handed_out>>
  /\ flags_unchanged
  /\ retriever_unchanged

SingletonNext ==
  \E t \in Threads :
    \/ Call(t)
    \/ LoadCheck(t)
    \/ ManagerInit(t)
    \/ ManagerLoad(t)
    \/ HybridCheck(t)
    \/ HybridBuild(t)
    \/ Returned(t)

SingletonSpec == SingletonInit /\ [][SingletonNext]_vars

\* one caller at a time: every call is made by the first thread
SequentialNext ==
  \/ Call(1)
  \/ LoadCheck(1)
  \/ ManagerInit(1)
  \/ ManagerLoad(1)
  \/ HybridCheck(1)
  \/ HybridBuild(1)
  \/ Returned(1)

SequentialSpec == SingletonInit /\ [][SequentialNext]_vars

(***************************************************************************)
(* Properties                                                              *)
(***************************************************************************)
Distinct(ids) == \A i, j \in DOMAIN ids : i # j => ids[i] # ids[j]

DocIds(docs) == [i \in DOMAIN docs |-> _get_doc_id(docs[i])]

TwoScoresTie(scores) == \E i, j \in DOMAIN scores : i # j /\ scores[i] = scores[j] /\ scores[i] > 0

\* C1: search with k > 0 returns at most k Documents, for every query, filter,
\* use_hybrid / use_rerank setting and answer of the vector store.
C1_AtMostK ==
  (last.op = "search" /\ last.k > 0) => Len(last.out.result) <= last.k

\* a search whose vector store answered with more than k Documents and that
\* neither fuses nor reranks: only the final slice cuts the list
C1_Witness ==
  /\ last.op = "search" /\ last.k = 1
  /\ ~last.use_hybrid /\ ~last.use_rerank
  /\ Len(last.resp.results) > last.k
  /\ Len(last.out.result) = 1

\* C2: the Documents search returns have pairwise distinct fingerprints, on
\* the hybrid path and on the dense-only path.
C2_DistinctFingerprints ==
  last.op = "search" => Distinct(DocIds(last.out.result))

\* The part of C2 the code keeps: Documents fused on the hybrid path have
\* pairwise distinct fingerprints.
HybridDistinctFingerprints ==
  (last.op = "search" /\ last.out.hybrid) => Distinct(DocIds(last.out.result))

C4_IndexReadOnly == [][index' = index]_vars

\* a lexical search on a built index has returned Documents
C4_Witness ==
  /\ last.op = "bm25_search" /\ bm25.built /\ last.out # << >>

\* a Document's metadata has every (key, value) of the filter
HasAll(doc, filter_dict) ==
  \A key \in DOMAIN filter_dict :
    key \in DOMAIN doc.metadata /\ doc.metadata[key] = filter_dict[key]

DenseHonoursFilter ==
  \A i \in DOMAIN last.resp.results : HasAll(last.resp.results[i].doc, last.filter_dict)

\* C5: with a non-empty filter that the vector store honours, every returned
\* Document has, for every (key, value) of the filter, that value under that key.
C5_FilterCorrectness ==
  (last.op = "search" /\ DOMAIN last.filter_dict # {} /\ DenseHonoursFilter)
    => \A i \in DOMAIN last.out.result : HasAll(last.out.result[i], last.filter_dict)

\* The part of C5 the code keeps: the same for filters none of whose values is None.
FilterCorrectnessProperValues ==
  (/\ last.op = "search" /\ DOMAIN last.filter_dict # {} /\ DenseHonoursFilter
   /\ \A key \in DOMAIN last.filter_dict : last.filter_dict[key] # None)
    => \A i \in DOMAIN last.out.result : HasAll(last.out.result[i], last.filter_dict)

\* C6: with a filter, the lexical candidates are selected among the matching
\* Documents only: a matching Document with a positive score is among the
\* candidates passed to fusion unless k * 2 other matching Documents score at
\* least as high.
C6_FilterBeforeSelection ==
  (last.op = "search" /\ last.out.hybrid /\ DOMAIN last.filter_dict # {})
    => LET scores == get_scores(_tokenize(expand_query(last.query)))
           matching == {i \in DOMAIN documents : FilterMatch(documents[i], last.filter_dict)}
       IN  \A i \in matching :
             (/\ scores[i] > 0
              /\ Cardinality({j \in matching \ {i} : scores[j] >= scores[i]}) < last.k * 2)
               => \E p \in DOMAIN last.out.bm25_results :
                    last.out.bm25_results[p].doc = documents[i]

\* C7: a lexical candidate whose metadata lacks a key of the filter is not in
\* the lexical list, whatever value the filter asks for, and search does not raise.
C7_AbsentKeyExcluded ==
  (last.op = "search" /\ last.out.hybrid)
    => /\ ~last.out.raised
       /\ \A p \in DOMAIN last.out.bm25_results :
            \A key \in DOMAIN last.filter_dict :
              key \in DOMAIN last.out.bm25_results[p].doc.metadata

\* the lexical list with each candidate's own RRF contribution
LexicalOnly(bm25_results) ==
  [p \in DOMAIN bm25_results |->
     [doc |-> bm25_results[p].doc, score |-> RRF(Frac(4, 10), p - 1)]]

DenseDown == last.resp.raises \/ last.resp.results = << >>

Min(a, b) == IF a < b THEN a ELSE b

\* C8 as stated: with the vector store down or empty and the index built, a
\* hybrid search does not raise and returns the filtered lexical candidates in
\* lexical rank order, reranked against the original query, truncated to k.
C8_LexicalRankOrder ==
  (last.op = "search" /\ last.k > 0 /\ last.use_hybrid /\ bm25.built /\ DenseDown)
    => /\ ~last.out.raised
       /\ last.out.result =
            IF last.use_rerank /\ last.out.bm25_results # << >>
              THEN Docs(rerank(last.query, LexicalOnly(last.out.bm25_results), last.k))
              ELSE Docs(Prefix(last.out.bm25_results, last.k))

\* C8, amended: in that case search does not raise and returns one Document
\* per fingerprint of the filtered lexical candidates, min(k, number of
\* fingerprints) of them; when the candidates' fingerprints are pairwise
\* distinct, these are the candidates in lexical rank order, reranked against
\* the original query (if use_rerank) and truncated to k.
C8_LexicalOnlyFallback ==
  (last.op = "search" /\ last.k > 0 /\ last.use_hybrid /\ bm25.built /\ DenseDown)
    => LET lexical == last.out.bm25_results
           ids == DocIds(Docs(lexical))
       IN  /\ ~last.out.raised
           /\ \A i \in DOMAIN last.out.result :
                \E p \in DOMAIN lexical : lexical[p].doc = last.out.result[i]
           /\ Distinct(DocIds(last.out.result))
           /\ Len(last.out.result) = Min(last.k, Cardinality(Range(ids)))
           /\ Distinct(ids) =>
                last.out.result =
                  IF last.use_rerank /\ lexical # << >>
                    THEN Docs(rerank(last.query, LexicalOnly(lexical), last.k))
                    ELSE Docs(Prefix(lexical, last.k))

\* the vector store raised, and a hybrid search returned lexical candidates
\* that reranking put in another order than their lexical rank
C8_Witness ==
  /\ last.op = "search" /\ last.use_hybrid /\ bm25.built /\ last.resp.raises
  /\ last.use_rerank
  /\ Len(last.out.result) >= 2
  /\ Distinct(DocIds(Docs(last.out.bm25_results)))
  /\ last.out.result # Docs(Prefix(last.out.bm25_results, last.k))

\* the similarity list semantic_search makes of the vector store's answer
Similarities(resp) ==
  [i \in DOMAIN resp.results |->
     [doc |-> resp.results[i].doc,
      score |-> Frac(resp.results[i].distance.d,
                     resp.results[i].distance.d + resp.results[i].distance.n)]]

\* C9: a retriever constructed with no documents has no lexical index; its
\* search does not raise, asks the vector store with the original query and
\* the given filter, and returns that answer reranked (if use_rerank) and
\* truncated to k: the empty list only if the vector store gave nothing.
C9_DenseFallback ==
  (last.op = "search" /\ last.k > 0 /\ documents = << >>)
    => LET dense == IF last.resp.raises THEN << >> ELSE Similarities(last.resp)
       IN  /\ ~last.out.raised
           /\ last.out.calls[1].fn = "semantic_search"
           /\ last.out.calls[1].query = last.query
           /\ last.out.calls[1].filter_dict = last.filter_dict
           /\ \A c \in DOMAIN last.out.calls : last.out.calls[c].fn # "bm25_search"
           /\ last.out.result =
                IF last.use_rerank /\ dense # << >>
                  THEN Docs(rerank(last.query, dense, last.k))
                  ELSE Docs(Prefix(dense, last.k))
           /\ (last.out.result = << >> => dense = << >>)

\* a retriever without documents asked for a hybrid search: the vector
\* store's answer, with a fingerprint twice, came back reranked
C9_Witness ==
  /\ last.op = "search" /\ documents = << >> /\ ~bm25.built
  /\ last.use_hybrid /\ last.use_rerank /\ last.k = 2
  /\ Len(last.resp.results) = 2
  /\ ~Distinct(DocIds(Docs(last.resp.results)))
  /\ Len(last.out.result) = 2

\* C10: when neither the lexical nor the dense search yields a candidate,
\* search returns the empty list, raises nothing and does not call rerank.
C10_EmptyResult ==
  (/\ last.op = "search"
   /\ DenseDown
   /\ filter_bm25(IF last.use_hybrid
                    THEN bm25_search(expand_query(last.query), last.k * 2)
                    ELSE << >>,
                  last.filter_dict) = << >>)
    => /\ last.out.result = << >>
       /\ ~last.out.raised
       /\ \A c \in DOMAIN last.out.calls : last.out.calls[c].fn # "rerank"

\* a reranking hybrid search on a built index: the vector store raised and
\* the filter removed every lexical candidate
C10_Witness ==
  /\ last.op = "search" /\ last.use_hybrid /\ last.use_rerank /\ last.k > 0
  /\ last.resp.raises
  /\ last.out.bm25_candidates # << >>
  /\ last.out.bm25_results = << >>
  /\ last.out.result = << >>
(***************************************************************************)
(* C11: search called with k = 0 is rejected or returns the empty list; it *)
(* never returns a non-empty list, whatever the query, the filter and the  *)
(* use_hybrid / use_rerank setting.                                        *)
(***************************************************************************)
C11_ZeroK ==
  (last.op = "search" /\ last.k = 0) => (last.out.raised \/ last.out.result = << >>)

\* k = 0 while the retriever holds candidates: the dense list is not empty
C11_Witness ==
  /\ last.op = "search"
  /\ last.k = 0
  /\ ~last.out.raised
  /\ last.out.candidates # << >>
  /\ last.out.result = << >>

(***************************************************************************)
(* The fusion made by the last call: the two lists given to it, the        *)
(* weights, the cut, and the fused list it produced.                       *)
(***************************************************************************)
NoFusion ==
  [on |-> FALSE, semantic_results |-> << >>, bm25_results |-> << >>,
   semantic_weight |-> Zero, bm25_weight |-> Zero, k |-> 0, fused |-> << >>]

FusionOfLast ==
  IF last.op = "search" /\ last.out.hybrid /\ ~last.out.raised
    THEN [on |-> TRUE,
          semantic_results |-> last.out.semantic_results,
          bm25_results |-> last.out.bm25_results,
          semantic_weight |-> Frac(6, 10), bm25_weight |-> Frac(4, 10),
          k |-> IF last.use_rerank THEN last.k * 2 ELSE last.k,
          fused |-> last.out.candidates]
  ELSE IF last.op = "hybrid_search" /\ ~last.out.raised
          /\ bm25_search(last.query, last.k * 3) # << >>
    THEN [on |-> TRUE,
          semantic_results |-> semantic_search(last.query, last.k * 3, << >>, last.resp).results,
          bm25_results |-> bm25_search(last.query, last.k * 3),
          semantic_weight |-> last.semantic_weight, bm25_weight |-> last.bm25_weight,
          k |-> last.k,
          fused |-> last.out.results]
  ELSE IF last.op = "_combine_results"
    THEN [on |-> TRUE,
          semantic_results |-> last.semantic_results,
          bm25_results |-> last.bm25_results,
          semantic_weight |-> Frac(6, 10), bm25_weight |-> Frac(4, 10),
          k |-> last.k,
          fused |-> last.out]
  ELSE NoFusion

\* the 0-based ranks of a fingerprint in a list
RanksOf(items, id) == {i - 1 : i \in {j \in DOMAIN items : _get_doc_id(items[j].doc) = id}}

IdsOf(items) == {_get_doc_id(items[i].doc) : i \in DOMAIN items}

\* every occurrence of a comes before every occurrence of b
Ahead(items, a, b) ==
  /\ RanksOf(items, a) # {}
  /\ RanksOf(items, b) # {}
  /\ \A i \in RanksOf(items, a), j \in RanksOf(items, b) : i < j

\* the fusion of the two lists without the cut to k
FusedAll(f) ==
  Fuse(f.semantic_results, f.bm25_results, f.semantic_weight, f.bm25_weight,
       Len(f.semantic_results) + Len(f.bm25_results))

ScoreIn(fused, id) == fused[CHOOSE p \in DOMAIN fused : _get_doc_id(fused[p].doc) = id].score

PlaceIn(fused, id) == CHOOSE p \in DOMAIN fused : _get_doc_id(fused[p].doc) = id

\* a scores at least as much as b, and is not placed after b in the fused list
NotBehind(f, a, b) ==
  /\ ~FLess(ScoreIn(FusedAll(f), a), ScoreIn(FusedAll(f), b))
  /\ b \in IdsOf(f.fused) =>
       (a \in IdsOf(f.fused) /\ PlaceIn(f.fused, a) < PlaceIn(f.fused, b))

AheadInBoth(f, a, b) ==
  /\ a # b
  /\ Ahead(f.semantic_results, a, b)
  /\ Ahead(f.bm25_results, a, b)

OnceInBoth(f, b) ==
  /\ Cardinality(RanksOf(f.semantic_results, b)) = 1
  /\ Cardinality(RanksOf(f.bm25_results, b)) = 1

(***************************************************************************)
(* C12, as stated: for all lexical and dense lists and any two documents A *)
(* and B present in both, if A ranks strictly ahead of B in both lists,    *)
(* A's fused score is at least B's and A is not placed after B.            *)
(***************************************************************************)
C12_RRFMonotonicity ==
  FusionOfLast.on =>
    \A a, b \in IdsOf(FusionOfLast.semantic_results) \cap IdsOf(FusionOfLast.bm25_results) :
      AheadInBoth(FusionOfLast, a, b) => NotBehind(FusionOfLast, a, b)

(***************************************************************************)
(* C12, amended: the same for a document B whose fingerprint occurs once   *)
(* in each list; a fingerprint that occurs again further down a list       *)
(* accumulates the contributions of all its ranks.                         *)
(***************************************************************************)
C12_RRFMonotonicityOnce ==
  FusionOfLast.on =>
    \A a, b \in IdsOf(FusionOfLast.semantic_results) \cap IdsOf(FusionOfLast.bm25_results) :
      (AheadInBoth(FusionOfLast, a, b) /\ OnceInBoth(FusionOfLast, b))
        => NotBehind(FusionOfLast, a, b)

\* a fusion in which A is ahead of B in both lists and both are returned
C12_Witness ==
  /\ FusionOfLast.on
  /\ \E a, b \in IdsOf(FusionOfLast.fused) :
       /\ AheadInBoth(FusionOfLast, a, b)
       /\ OnceInBoth(FusionOfLast, b)
       /\ FLess(ScoreIn(FusionOfLast.fused, b), ScoreIn(FusionOfLast.fused, a))

(***************************************************************************)
(* C13: query expansion is additive-only and bounded: expand_query returns *)
(* a text that starts with the unmodified original query, and the expanded *)
(* query has at most 5 tokens more than the original query.                *)
(***************************************************************************)
StartsWithQuery == Prefix(last.out, Len(last.query)) = last.query

C13_AdditiveBounded ==
  last.op = "expand_query" =>
    /\ StartsWithQuery
    /\ Len(_tokenize(last.out)) <= Len(_tokenize(last.query)) + MaxExpansions

\* the additive half alone: the original query is a prefix of the result
ExpansionKeepsQuery == last.op = "expand_query" => StartsWithQuery

\* the bound the code keeps: at most five table entries are appended
ExpansionAtMostFiveEntries ==
  last.op = "expand_query" =>
    \E n \in 0..MaxExpansions :
      /\ n <= Len(last.expansions)
      /\ last.out = expanded(last.query, SubSeq(last.expansions, 1, n))

(***************************************************************************)
(* C14: reranking only reorders and truncates: the Documents returned by   *)
(* rerank are a sub-multiset of the input candidates, the output length is *)
(* min(top_k, input length), and no candidate is dropped other than by the *)
(* truncation to top_k.                                                    *)
(***************************************************************************)
Count(seq, x) == Cardinality({i \in DOMAIN seq : seq[i] = x})

SubMultiset(out, in) == \A d \in Range(out) : Count(out, d) <= Count(in, d)

C14_RerankReorders ==
  last.op = "rerank" =>
    /\ SubMultiset(Docs(last.out), Docs(last.documents))
    /\ Len(last.out) = Min(last.top_k, Len(last.documents))

\* two candidates, top_k = 1, and the second candidate is the one returned
C14_Witness ==
  /\ last.op = "rerank"
  /\ Len(last.documents) = 2
  /\ last.top_k = 1
  /\ Len(last.out) = 1
  /\ last.out[1].doc = last.documents[2].doc
  /\ last.documents[1].doc # last.documents[2].doc

(***************************************************************************)
(* C15: a POST /api/chat request with use_rag = true reaches the RAG       *)
(* pipeline: the handler's call of get_rag_response is accepted for every  *)
(* category, a category that maps to a department makes that department    *)
(* the filter of the retriever's search, and the generic "Sorry, an error  *)
(* occurred" response is produced only when a pipeline component fails.    *)
(***************************************************************************)
ComponentFails(env) ==
  \/ ~env.groq_api_key
  \/ ~env.store_loaded
  \/ ~env.hybrid_available
  \/ env.resp.raises
  \/ ~env.primary_ok
  \/ ~env.fallback_ok

C15_ChatReachesPipeline ==
  (last.op = "chat" /\ last.use_rag) =>
    /\ last.out.accepted
    /\ (category_filter(last.category) # None /\ ~ComponentFails(last.env))
         => last.out.filter_used = category_filter(last.category)
    /\ last.out.response = "Sorry, an error occurred" => ComponentFails(last.env)

(***************************************************************************)
(* C16: get_rag_response never raises; context_used is True only if the    *)
(* retrieval returned at least one Document and a model call succeeded,    *)
(* and then sources has one entry per retrieved Document; when retrieval   *)
(* returns no Document, or the vector store is missing, the result is the  *)
(* basic-response fallback with sources = [] and context_used = False.     *)
(***************************************************************************)
C16_RagResponse ==
  last.op = "get_rag_response" =>
    /\ ~last.out.raised
    /\ last.out.context_used =>
         /\ last.out.retrieved_docs # << >>
         /\ (last.env.primary_ok \/ last.env.fallback_ok)
         /\ Len(last.out.sources) = Len(last.out.retrieved_docs)
    /\ (last.out.retrieved_docs = << >> \/ ~last.env.store_loaded) =>
         /\ last.out.response = get_basic_response(last.env)
         /\ last.out.sources = << >>
         /\ ~last.out.context_used

\* the hybrid retriever returned several Documents, the primary model failed
\* and the fallback model answered
C16_Witness ==
  /\ last.op = "get_rag_response"
  /\ last.env.hybrid_available
  /\ last.out.context_used
  /\ last.out.response = "rag_fallback"
  /\ Len(last.out.sources) >= 2

\* no Document retrieved: the basic response, no sources
C16_WitnessFallback ==
  /\ last.op = "get_rag_response"
  /\ last.env.groq_api_key
  /\ last.env.store_loaded
  /\ last.out.retrieved_docs = << >>
  /\ last.out.response = "basic_primary"

(***************************************************************************)
(* C17: expand_query appends at most 5 synonym entries in total across all *)
(* matched terms (not 5 per term), in table order (key order, then each    *)
(* key's list order), skipping every synonym that already occurs in the    *)
(* query case-insensitively; if no term matches, or every synonym of the   *)
(* matched terms is already present, the query is returned unchanged.      *)
(* A term matches when it is a substring of the lowercased query.          *)
(***************************************************************************)
\* <<i, j>>: synonym j of table entry i is new to the query and entry i matches
NewSynonyms(query) ==
  {p \in UNION {{<<i, j>> : j \in DOMAIN LEGAL_SYNONYMS[i].synonyms} : i \in DOMAIN LEGAL_SYNONYMS} :
     /\ Contains(Lower(query), LEGAL_SYNONYMS[p[1]].term)
     /\ ~Contains(Lower(query), Lower(LEGAL_SYNONYMS[p[1]].synonyms[p[2]]))}

TableBefore(p, q) == p[1] < q[1] \/ (p[1] = q[1] /\ p[2] < q[2])

\* the first n of them in table order
FirstNew(query, n) ==
  [m \in 1..Min(n, Cardinality(NewSynonyms(query))) |->
     LET p == CHOOSE p \in NewSynonyms(query) :
                Cardinality({q \in NewSynonyms(query) : TableBefore(q, p)}) = m - 1
     IN  LEGAL_SYNONYMS[p[1]].synonyms[p[2]]]

RECURSIVE Appended(_, _)
Appended(text, entries) ==
  IF entries = << >> THEN text
  ELSE Appended(text \o <<" ">> \o Head(entries), Tail(entries))

C17_ExpansionTotalCap ==
  last.op = "expand_query" =>
    last.out = Appended(last.query, FirstNew(last.query, 5))

\* two terms match, nine synonyms are new, and the fifth appended entry is
\* the first synonym of the second term
C17_Witness ==
  /\ last.op = "expand_query"
  /\ last.query = JoinSpace(<<WordRobbery, WordBail>>)
  /\ Cardinality(NewSynonyms(last.query)) = 9
  /\ Len(last.out) > Len(last.query)

\* a synonym present in another case is skipped, all synonyms present: unchanged
C17_WitnessSkip ==
  /\ last.op = "expand_query"
  /\ last.query = JoinSpace(<<WordDower, WordsMehr>>)
  /\ last.out = last.query

(***************************************************************************)
(* C18: for every key of the synonym table, a query that contains the key  *)
(* as a substring (compared after lowercasing the query) has the key's     *)
(* synonym list collected by expand_query: no key is unmatchable.          *)
(***************************************************************************)
\* the synonyms of entry i that the query does not hold are all collected
Collected(i) ==
  \A j \in DOMAIN LEGAL_SYNONYMS[i].synonyms :
    \/ Contains(Lower(last.query), Lower(LEGAL_SYNONYMS[i].synonyms[j]))
    \/ LEGAL_SYNONYMS[i].synonyms[j] \in Range(last.expansions)

C18_EveryKeyMatchable ==
  last.op = "expand_query" =>
    \A i \in DOMAIN LEGAL_SYNONYMS :
      (Contains(last.query, LEGAL_SYNONYMS[i].term)
         \/ Contains(Lower(last.query), LEGAL_SYNONYMS[i].term))
        => Collected(i)

\* the keys written in lowercase are matched in every query that holds them
\* in any case
LowercaseKeysMatch ==
  last.op = "expand_query" =>
    \A i \in DOMAIN LEGAL_SYNONYMS :
      (LEGAL_SYNONYMS[i].term = Lower(LEGAL_SYNONYMS[i].term)
         /\ Contains(Lower(last.query), LEGAL_SYNONYMS[i].term))
        => Collected(i)

(***************************************************************************)
(* C19: in every execution of search on the hybrid path the expanded query *)
(* is given only to the lexical search; the dense adapter is called with   *)
(* the unexpanded original query and the reranker scores against the       *)
(* unexpanded original query.                                              *)
(***************************************************************************)
C19_ExpandedOnlyLexical ==
  (last.op = "search" /\ last.out.hybrid) =>
    \A i \in DOMAIN last.out.calls :
      /\ last.out.calls[i].fn \in {"semantic_search", "rerank"}
           => last.out.calls[i].query = last.query
      /\ last.out.calls[i].fn = "bm25_search"
           => last.out.calls[i].query = expand_query(last.query)

\* a hybrid search whose query is expanded and which makes all three calls
C19_Witness ==
  /\ last.op = "search"
  /\ last.out.hybrid
  /\ expand_query(last.query) # last.query
  /\ {last.out.calls[i].fn : i \in DOMAIN last.out.calls}
       = {"semantic_search", "bm25_search", "rerank"}

(***************************************************************************)
(* C20: the fused score of each fingerprint is 0.6 times the sum of        *)
(* 1/(r + 60) over its 0-based ranks r in the dense list plus 0.4 times    *)
(* the sum of 1/(r + 60) over its 0-based ranks r in the lexical list; a   *)
(* document present in only one list receives only that list's             *)
(* contribution, and a document present in neither is absent from the      *)
(* fused result.                                                           *)
(***************************************************************************)
\* weight * sum of 1/(r + 60) over the ranks r of a set
RECURSIVE SumRanks(_, _)
SumRanks(ranks, weight) ==
  IF ranks = {} THEN Zero
  ELSE LET r == CHOOSE r \in ranks : TRUE
       IN  FAdd(Frac(weight.n, weight.d * (r + 60)), SumRanks(ranks \ {r}, weight))

FusionScore(f, id) ==
  FAdd(SumRanks(RanksOf(f.semantic_results, id), Frac(6, 10)),
       SumRanks(RanksOf(f.bm25_results, id), Frac(4, 10)))

ScoresAsSpecified(f, fused) ==
  \A p \in DOMAIN fused : fused[p].score = FusionScore(f, _get_doc_id(fused[p].doc))

C20_FusionScore ==
  FusionOfLast.on =>
    /\ ScoresAsSpecified(FusionOfLast, FusionOfLast.fused)
    /\ ScoresAsSpecified(FusionOfLast, FusedAll(FusionOfLast))
    /\ IdsOf(FusionOfLast.fused) \subseteq IdsOf(FusedAll(FusionOfLast))
    /\ IdsOf(FusedAll(FusionOfLast))
         = IdsOf(FusionOfLast.semantic_results) \cup IdsOf(FusionOfLast.bm25_results)
    /\ Cardinality(IdsOf(FusionOfLast.fused)) = Len(FusionOfLast.fused)

\* the fused list holds a fingerprint of both lists that has two lexical ranks,
\* one of the dense list only and one of the lexical list only
C20_Witness ==
  /\ FusionOfLast.on
  /\ \E a, b, c \in IdsOf(FusionOfLast.fused) :
       /\ RanksOf(FusionOfLast.semantic_results, a) # {}
       /\ Cardinality(RanksOf(FusionOfLast.bm25_results, a)) = 2
       /\ RanksOf(FusionOfLast.semantic_results, b) # {}
       /\ RanksOf(FusionOfLast.bm25_results, b) = {}
       /\ RanksOf(FusionOfLast.semantic_results, c) = {}
       /\ RanksOf(FusionOfLast.bm25_results, c) # {}


(***************************************************************************)
(* C21: the fused ranking is sorted by descending accumulated score, and   *)
(* candidates with equal fused score are ordered by the order in which     *)
(* their fingerprints were first encountered, with the lexical list        *)
(* processed first, so that the lexical list's order takes priority over   *)
(* the dense list's.                                                       *)
(***************************************************************************)
\* the place of a fingerprint in a list of fingerprints
PlaceOfId(ids, id) == CHOOSE p \in DOMAIN ids : ids[p] = id

\* fused is sorted by descending score, equal scores in the order of ids
SortedTiesBy(fused, ids) ==
  \A p, q \in DOMAIN fused :
    p < q =>
      /\ ~FLess(fused[p].score, fused[q].score)
      /\ fused[p].score = fused[q].score
           => PlaceOfId(ids, _get_doc_id(fused[p].doc))
                < PlaceOfId(ids, _get_doc_id(fused[q].doc))

C21_TiesLexicalFirst ==
  FusionOfLast.on =>
    SortedTiesBy(FusedAll(FusionOfLast),
                 FirstSeen(FusionOfLast.bm25_results \o FusionOfLast.semantic_results, {}))

\* what the loops do: the dense list's fingerprints are encountered first
FusedTiesDenseFirst ==
  FusionOfLast.on =>
    SortedTiesBy(FusedAll(FusionOfLast),
                 FirstSeen(FusionOfLast.semantic_results \o FusionOfLast.bm25_results, {}))

\* a fusion with two fingerprints of equal score, one from each list
FusedTie ==
  /\ FusionOfLast.on
  /\ \E p, q \in DOMAIN FusionOfLast.fused :
       /\ p < q
       /\ FusionOfLast.fused[p].score = FusionOfLast.fused[q].score


(***************************************************************************)
(* C22: for every fingerprint that occurs more than once across or within  *)
(* the lexical and dense lists, fusion keeps the first-seen Document       *)
(* object for that fingerprint (the first one encountered in processing    *)
(* order) and accumulates all contributions under it, so the fused result  *)
(* contains exactly one entry per fingerprint.                             *)
(***************************************************************************)
\* the lists in the order the two loops go through them
Processed(f) == f.semantic_results \o f.bm25_results

FirstOf(items, id) ==
  items[CHOOSE i \in DOMAIN items :
          /\ _get_doc_id(items[i].doc) = id
          /\ \A j \in DOMAIN items : _get_doc_id(items[j].doc) = id => i <= j].doc

LastOf(items, id) ==
  items[CHOOSE i \in DOMAIN items :
          /\ _get_doc_id(items[i].doc) = id
          /\ \A j \in DOMAIN items : _get_doc_id(items[j].doc) = id => j <= i].doc

OneEntryPerFingerprint(f, fused) ==
  /\ IdsOf(fused) = IdsOf(Processed(f))
  /\ Cardinality(IdsOf(fused)) = Len(fused)

KeepsFirstSeen(f, fused) ==
  \A p \in DOMAIN fused :
    fused[p].doc = FirstOf(Processed(f), _get_doc_id(fused[p].doc))

\* what the loops keep: the last Document of the dense list with the
\* fingerprint, and the first of the lexical list if the dense list has none
KeepsLastDense(f, fused) ==
  \A p \in DOMAIN fused :
    fused[p].doc
      = IF _get_doc_id(fused[p].doc) \in IdsOf(f.semantic_results)
          THEN LastOf(f.semantic_results, _get_doc_id(fused[p].doc))
          ELSE FirstOf(f.bm25_results, _get_doc_id(fused[p].doc))

FirstSeenIn(f, fused) == OneEntryPerFingerprint(f, fused) /\ KeepsFirstSeen(f, fused)

LastDenseIn(f, fused) == OneEntryPerFingerprint(f, fused) /\ KeepsLastDense(f, fused)

C22_FirstSeenDocument ==
  FusionOfLast.on => FirstSeenIn(FusionOfLast, FusedAll(FusionOfLast))

FusedKeepsLastDense ==
  FusionOfLast.on => LastDenseIn(FusionOfLast, FusedAll(FusionOfLast))

\* C22's case on a search that returns the fused document
C22_FirstSeenReturned ==
  (last.op = "search" /\ last.k = 1 /\ ~last.use_rerank /\ FusionOfLast.on)
    => KeepsFirstSeen(FusionOfLast, FusionOfLast.fused)


(***************************************************************************)
(* C23: if the dense list is empty, fusion returns the lexical list's      *)
(* documents in their lexical rank order, truncated to the requested size  *)
(* and scored by their own RRF contribution alone, for every lexical list  *)
(* with pairwise distinct fingerprints.                                    *)
(***************************************************************************)
\* the first k of the lexical list, the one at 0-based rank r scored
\* bm25_weight / (r + 60)
LexicalAlone(f) ==
  [p \in 1..Min(f.k, Len(f.bm25_results)) |->
     [doc |-> f.bm25_results[p].doc,
      score |-> Frac(f.bm25_weight.n, f.bm25_weight.d * (p - 1 + rrf_constant))]]

DenseEmptyDistinct(f) ==
  /\ f.on
  /\ f.semantic_results = << >>
  /\ Distinct(DocIds(Docs(f.bm25_results)))

C23_DenseEmpty ==
  DenseEmptyDistinct(FusionOfLast) => FusionOfLast.fused = LexicalAlone(FusionOfLast)

\* an empty dense list and a lexical list longer than the cut
C23_Witness ==
  /\ DenseEmptyDistinct(FusionOfLast)
  /\ FusionOfLast.k >= 1
  /\ Len(FusionOfLast.bm25_results) > FusionOfLast.k
  /\ Len(FusionOfLast.fused) = FusionOfLast.k


(***************************************************************************)
(* C24: for every candidate, rerank computes final_score = base_score +    *)
(* min(overlap_count * 0.02, 0.20) + (0.15 if the lowercase query is a     *)
(* substring of the full lowercase content, else 0), where overlap_count   *)
(* is the number of distinct query tokens found among the tokens of the    *)
(* first 500 characters of the content; hence base_score <= final_score <= *)
(* base_score + 0.35, and the output is sorted by descending final_score   *)
(* with equal scores kept in input order.                                  *)
(***************************************************************************)
\* the number of distinct query tokens found among the document tokens
overlap_of(query_tokens, doc_tokens) ==
  Cardinality({t \in Range(query_tokens) : t \in Range(doc_tokens)})

overlap_count(query, doc) ==
  overlap_of(_tokenize(query), _tokenize(Prefix(doc.page_content, 500)))

\* the two bonuses in hundredths
overlap_bonus(query, doc) == Min(overlap_count(query, doc) * 2, 20)

phrase_bonus(query, doc) ==
  IF Contains(Lower(doc.page_content), Lower(query)) THEN 15 ELSE 0

final_score(query, cand) ==
  FAdd(cand.score, Frac(overlap_bonus(query, cand.doc) + phrase_bonus(query, cand.doc), 100))

\* the final scores of the candidates from the i-th on
RECURSIVE final_scores(_, _, _)
final_scores(query, docs, i) ==
  IF i > Len(docs) THEN << >>
  ELSE <<final_score(query, docs[i])>> \o final_scores(query, docs, i + 1)

\* scores is the list of final scores of the input; the candidate at i is
\* placed after those of a higher score and those of an equal score before it
PlacedByScore(docs, scores, out, top_k) ==
  /\ Len(out) = Min(top_k, Len(docs))
  /\ \A i \in DOMAIN docs :
       LET place == 1 + Cardinality({j \in DOMAIN docs :
                                       \/ FLess(scores[i], scores[j])
                                       \/ (scores[j] = scores[i] /\ j < i)})
       IN  place <= Len(out)
             => out[place] = [doc |-> docs[i].doc, score |-> scores[i]]

ScoresBounded(docs, scores) ==
  \A i \in DOMAIN docs :
    /\ ~FLess(scores[i], docs[i].score)
    /\ ~FLess(FAdd(docs[i].score, Frac(35, 100)), scores[i])

RerankedAsSpecified(query, docs, scores, out, top_k) ==
  /\ PlacedByScore(docs, scores, out, top_k)
  /\ ScoresBounded(docs, scores)

C24_RerankScore ==
  last.op = "rerank" =>
    \A scores \in {final_scores(last.query, last.documents, 1)} :
      RerankedAsSpecified(last.query, last.documents, scores, last.out, last.top_k)

\* a candidate of more than 10 overlapping tokens is moved ahead of one that
\* came before it, and two candidates of equal final score keep their order
C24_Witness ==
  /\ last.op = "rerank"
  /\ Len(last.documents) = 2
  /\ overlap_count(last.query, last.documents[2].doc) > 10
  /\ last.out # << >>
  /\ last.out[1].doc = last.documents[2].doc
  /\ last.out[1].doc # last.documents[1].doc

C24_WitnessTie ==
  /\ last.op = "rerank"
  /\ Len(last.out) = 2
  /\ last.out[1].score = last.out[2].score
  /\ last.out[1].doc # last.out[2].doc
  /\ last.out[1].doc = last.documents[1].doc


(***************************************************************************)
(* C25: lexical top-k selection orders documents by descending score, and  *)
(* documents with equal lexical score appear in their original corpus      *)
(* insertion order (the lower corpus index first).                         *)
(***************************************************************************)
\* the place of a Document in self.documents
CorpusIndex(doc) == CHOOSE i \in DOMAIN documents : documents[i] = doc

DescendingScore(results) ==
  \A p, q \in DOMAIN results : p < q => ~FLess(results[p].score, results[q].score)

TiesInCorpusOrder(results) ==
  \A p, q \in DOMAIN results :
    (p < q /\ results[p].score = results[q].score)
      => CorpusIndex(results[p].doc) < CorpusIndex(results[q].doc)

C25_TiesByInsertionOrder ==
  last.op = "bm25_search" =>
    /\ DescendingScore(last.out)
    /\ TiesInCorpusOrder(last.out)

\* the half that does not depend on the order argsort gives to equal scores
LexicalDescending ==
  last.op = "bm25_search" => DescendingScore(last.out)

\* a lexical result with two documents of equal score
LexicalTie ==
  /\ last.op = "bm25_search"
  /\ \E p, q \in DOMAIN last.out : p < q /\ last.out[p].score = last.out[q].score


(***************************************************************************)
(* C26: bm25_search returns at most k results, all with strictly positive  *)
(* score (documents with zero score are never returned, even when fewer    *)
(* than k documents score positively), and no positive-score document is   *)
(* omitted while a lower-scoring one is returned.                          *)
(***************************************************************************)
NoLexical == [on |-> FALSE, query |-> << >>, k |-> 0, results |-> << >>]

\* the call of bm25_search made by the last operation, and what it returned
LexicalOfLast ==
  IF last.op = "bm25_search"
    THEN [on |-> TRUE, query |-> last.query, k |-> last.k, results |-> last.out]
  ELSE IF last.op = "search" /\ last.out.hybrid /\ ~last.out.raised
    THEN [on |-> TRUE, query |-> expand_query(last.query), k |-> last.k * 2,
          results |-> last.out.bm25_candidates]
  ELSE NoLexical

\* the documents returned, as places in self.documents
ReturnedIndices(results) == {CorpusIndex(results[p].doc) : p \in DOMAIN results}

OnlyPositiveBest(scores, returned, results, k) ==
  /\ Len(results) <= k
  /\ Cardinality(returned) = Len(results)
  /\ \A p \in DOMAIN results : FLess(Zero, results[p].score)
  /\ \A i \in returned : scores[i] > 0
  /\ \A i \in DOMAIN documents :
       (scores[i] > 0 /\ i \notin returned) => \A j \in returned : scores[j] >= scores[i]

C26_PositiveTopK ==
  LexicalOfLast.on =>
    \A scores \in {get_scores(_tokenize(LexicalOfLast.query))} :
      OnlyPositiveBest(scores, ReturnedIndices(LexicalOfLast.results),
                       LexicalOfLast.results, LexicalOfLast.k)

\* fewer than k documents score positively, and one that scores zero is left out
C26_Witness ==
  /\ LexicalOfLast.on
  /\ LexicalOfLast.results # << >>
  /\ Len(LexicalOfLast.results) < LexicalOfLast.k
  /\ Len(LexicalOfLast.results) < Len(documents)

\* more than k documents score positively, and the lower-scoring one is cut
C26_WitnessCut ==
  /\ LexicalOfLast.on
  /\ Len(LexicalOfLast.results) = LexicalOfLast.k
  /\ \E i \in DOMAIN documents :
       /\ i \notin ReturnedIndices(LexicalOfLast.results)
       /\ get_scores(_tokenize(LexicalOfLast.query))[i] > 0


(***************************************************************************)
(* C27: on the hybrid path with lexical and dense lists that each have     *)
(* pairwise distinct fingerprints, every fused score is at most 1/60 <     *)
(* 0.02, so for any two candidates without a phrase match and with overlap *)
(* counts of at most 10, the candidate with strictly more overlapping      *)
(* query tokens is ranked ahead by rerank regardless of their fused ranks; *)
(* the fused order only decides between candidates with equal bonus.       *)
(***************************************************************************)
\* search fused two lists of distinct fingerprints and reranked the outcome
HybridReranked ==
  /\ last.op = "search"
  /\ ~last.out.raised
  /\ last.out.hybrid
  /\ last.use_rerank
  /\ Distinct(DocIds(Docs(last.out.semantic_results)))
  /\ Distinct(DocIds(Docs(last.out.bm25_results)))

PlaceOfDoc(docs, doc) == CHOOSE p \in DOMAIN docs : docs[p] = doc

\* if b is returned then a is returned before it
ReturnedAhead(result, a, b) ==
  (\E q \in DOMAIN result : result[q] = b)
    => /\ \E p \in DOMAIN result : result[p] = a
       /\ PlaceOfDoc(result, a) < PlaceOfDoc(result, b)

MoreOverlap(query, a, b) ==
  /\ phrase_bonus(query, a) = 0
  /\ phrase_bonus(query, b) = 0
  /\ overlap_count(query, a) <= 10
  /\ overlap_count(query, b) <= 10
  /\ overlap_count(query, a) > overlap_count(query, b)

EqualBonus(query, a, b) ==
  overlap_bonus(query, a) + phrase_bonus(query, a)
    = overlap_bonus(query, b) + phrase_bonus(query, b)

BonusDecides(query, candidates, result) ==
  /\ \A p \in DOMAIN candidates : ~FLess(Frac(1, 60), candidates[p].score)
  /\ \A i, j \in DOMAIN candidates :
       MoreOverlap(query, candidates[i].doc, candidates[j].doc)
         => ReturnedAhead(result, candidates[i].doc, candidates[j].doc)
  /\ \A i, j \in DOMAIN candidates :
       (i < j /\ EqualBonus(query, candidates[i].doc, candidates[j].doc))
         => ReturnedAhead(result, candidates[i].doc, candidates[j].doc)

C27_OverlapOutranksFusion ==
  HybridReranked => BonusDecides(last.query, last.out.candidates, last.out.result)

\* the candidate fused second has more overlap and is returned first
C27_Witness ==
  /\ HybridReranked
  /\ \E i, j \in DOMAIN last.out.candidates :
       /\ j < i
       /\ MoreOverlap(last.query, last.out.candidates[i].doc, last.out.candidates[j].doc)
       /\ Len(last.out.result) = 2
       /\ last.out.result[1] = last.out.candidates[i].doc
       /\ last.out.result[2] = last.out.candidates[j].doc


(***************************************************************************)
(* C28: singleton: over any interleaving of calls to get_hybrid_retriever  *)
(* (including concurrent first calls), at most one HybridRetriever is ever *)
(* constructed and every call that returns a retriever returns that same   *)
(* instance; a failed initialization is not cached, so a later call        *)
(* retries.                                                                *)
(***************************************************************************)
FailureNotCached ==
  /\ _hybrid_retriever \in constructed \cup {NoRetriever}
  /\ constructed = {} => _hybrid_retriever = NoRetriever
  /\ handed_out \subseteq constructed

C28_Singleton ==
  /\ Cardinality(constructed) <= 1
  /\ Cardinality(handed_out) <= 1
  /\ FailureNotCached

\* the half that holds under every interleaving: only a constructed
\* HybridRetriever is cached or returned, and nothing is cached before one
\* has been constructed
SingletonFailureNotCached == FailureNotCached

\* a call that came back with None was followed by one that constructed
SingletonRetried ==
  /\ constructed # {}
  /\ \A c \in constructed : c > 1
  /\ \A t \in Threads : frames[t].pc \in {"idle", "done"}

\* two threads inside get_hybrid_retriever, both past the test of line 101
SingletonRace ==
  /\ \A t \in Threads : frames[t].op = "get_hybrid_retriever"
  /\ \A t \in Threads : frames[t].pc = "hybrid_loaded"


(***************************************************************************)
(* C29: load_vector_store tries the full vector store first and, if the    *)
(* full vector store does not exist on disk, falls back to the test vector *)
(* store and returns it when that one exists; it returns None only when    *)
(* neither store exists (or loading raises), and once a manager has been   *)
(* loaded every later call returns that same manager.                      *)
(***************************************************************************)
StoreExists(dir) == disk[dir] = "store"

\* a call of load_vector_store has returned to the thread
LoadDone(t) == frames[t].op = "load_vector_store" /\ frames[t].pc = "done"

\* own: the call found nothing cached and loaded the manager itself
FallsBackToTest(manager, raised, own) ==
  /\ (own /\ ~StoreExists(Dirs[1]) /\ StoreExists(Dirs[2])) => manager.dir = Dirs[2]
  /\ (own /\ StoreExists(Dirs[1]) /\ ~raised) => manager.dir = Dirs[1]
  /\ (~raised /\ ~StoreExists(Dirs[1]) /\ StoreExists(Dirs[2])) => manager # NoManager
  /\ manager = NoManager => (raised \/ (~StoreExists(Dirs[1]) /\ ~StoreExists(Dirs[2])))
  /\ manager # NoManager => manager = _vector_store_manager

C29_FullThenTest ==
  \A t \in Threads :
    (LoadDone(t) /\ RAG_AVAILABLE)
      => FallsBackToTest(frames[t].vector_store, frames[t].raised,
                         frames[t].vector_store.call = frames[t].call)

\* what the calls do: a call that loads the manager itself returns that of
\* the test store only after opening the full directory raised, and None
\* only after something raised
TestOnlyAfterRaise ==
  \A t \in Threads :
    (LoadDone(t) /\ RAG_AVAILABLE) =>
      /\ frames[t].vector_store = NoManager => frames[t].raised
      /\ (frames[t].vector_store.call = frames[t].call /\ frames[t].vector_store.dir = Dirs[2])
           => frames[t].raised
      /\ frames[t].vector_store # NoManager => frames[t].vector_store = _vector_store_manager

\* a manager once cached stays
ManagerKept ==
  [][_vector_store_manager # NoManager => _vector_store_manager' = _vector_store_manager]_vars

\* the full store is missing, the test store is there, nothing raised
FullMissing ==
  /\ LoadDone(1)
  /\ RAG_AVAILABLE
  /\ ~frames[1].raised
  /\ ~StoreExists(Dirs[1])
  /\ StoreExists(Dirs[2])

(***************************************************************************)
(* C30: in get_basic_response and get_rag_response the primary model is    *)
(* the first model invoked, the fallback model is invoked if and only if   *)
(* the primary invocation raised, and if both raise the function returns   *)
(* the 'Both models failed' message (in get_rag_response with sources = [] *)
(* and context_used = False) instead of raising.                           *)
(***************************************************************************)
\* a call of one of the two functions, in progress or finished
ModelCall == last # NoCall /\ last.op \in {"get_basic_response", "get_rag_response"}

\* the model was invoked during the call
Invoked(model) == \E i \in DOMAIN last.invoked : last.invoked[i].model = model

\* the env of the whole request, once the outcome of each model call is known
env_of(e, invoked) ==
  [groq_api_key |-> e.groq_api_key, store_loaded |-> e.store_loaded,
   hybrid_available |-> e.hybrid_available, resp |-> e.resp,
   primary_ok |-> Len(invoked) >= 1 /\ ~invoked[1].raised,
   fallback_ok |-> Len(invoked) >= 2 /\ ~invoked[2].raised]

BothRaised ==
  /\ Len(last.invoked) = 2
  /\ last.invoked[1].raised
  /\ last.invoked[2].raised

\* the order of the invocations
PrimaryFirst ==
  /\ Len(last.invoked) <= 2
  /\ Len(last.invoked) >= 1 => last.invoked[1].model = primary_model
  /\ Len(last.invoked) = 2 => last.invoked[2].model = fallback_model
  /\ (last.pc = "done" /\ last.env.groq_api_key) => Invoked(primary_model)

\* the fallback is invoked only after the primary raised, and before the
\* function returns if it did
FallbackIffPrimaryRaised ==
  /\ Invoked(fallback_model) => last.invoked[1].raised
  /\ (last.pc = "done" /\ Invoked(primary_model) /\ last.invoked[1].raised)
       => Invoked(fallback_model)

BothFailedMessage ==
  (last.pc = "done" /\ BothRaised) =>
    IF last.op = "get_basic_response" THEN last.out = "basic_both_failed"
    ELSE /\ last.out.response \in {"basic_both_failed", "rag_both_failed"}
         /\ last.out.sources = << >>
         /\ ~last.out.context_used
         /\ ~last.out.raised

C30_OrderedFallback ==
  ModelCall => PrimaryFirst /\ FallbackIffPrimaryRaised /\ BothFailedMessage

\* the step-by-step calls return what get_rag_response and get_basic_response
\* return for the same outcomes of the model calls
StepsAgree ==
  (ModelCall /\ last.pc = "done") =>
    IF last.op = "get_basic_response"
      THEN last.out = get_basic_response(
                        [groq_api_key |-> last.env.groq_api_key,
                         primary_ok |-> Len(last.invoked) >= 1 /\ ~last.invoked[1].raised,
                         fallback_ok |-> Len(last.invoked) >= 2 /\ ~last.invoked[2].raised])
      ELSE last.out = get_rag_response(last.user_input, last.k,
                                       env_of(last.env, last.invoked))

\* get_rag_response retrieved Documents, both models raised, and it returned
C30_Witness ==
  /\ ModelCall
  /\ last.op = "get_rag_response"
  /\ last.pc = "done"
  /\ last.retrieved_docs # << >>
  /\ BothRaised
  /\ last.out.response = "rag_both_failed"

\* get_basic_response: the primary raised and the fallback answered
C30_WitnessFallback ==
  /\ ModelCall
  /\ last.op = "get_basic_response"
  /\ last.pc = "done"
  /\ Len(last.invoked) = 2
  /\ ~last.invoked[2].raised
  /\ last.out = "basic_fallback"

====
